---- MODULE Spec2Model ----
(***************************************************************************)
(* Tesla-Wrap-Studio: the 3D preview pipeline of ThreeViewer (scene load,  *)
(* material classification, wrap-texture binding, teardown) and the asset  *)
(* resolver getGltfUrl; and the IndexedDB pack cache (getCachedPack,       *)
(* cachePack, downloadPack).                                               *)
(*                                                                         *)
(* Numbers that are fractions in the source (opacity, metalness,           *)
(* roughness) are kept in hundredths: 0.5 is 50, 0.9 is 90.                *)
(***************************************************************************)
EXTENDS Integers, Sequences, FiniteSets, TLC

VARIABLES
  \* ---- classification of one scene graph (applyWrapTexture as a function)
  cInput,      \* the scene graph as the parser returned it
  cGraph,      \* the scene graph after the passes run so far
  cMaterials,  \* the scene document's material array
  cBody,       \* bodyMeshesRef.current after the last pass
  cPass,       \* number of applyWrapTexture passes run past the stage guard
  \* ---- asset resolver (getGltfUrl as a function)
  rModules,    \* the gltfModules glob table
  rFolder,     \* the folderName argument
  rResult,     \* the value returned
  rPc,         \* "idle" before the call, "done" after it
  \* ---- ThreeViewer
  isOpen,          \* the isOpen prop
  folder,          \* currentModel.folderName
  loading,         \* React state
  loadingProgress,
  error,
  modelFormat,
  rendererRef,     \* the session whose renderer rendererRef.current is, 0 for null
  textureRef,      \* the texture textureRef.current is, 0 for null
  bodyMeshesRef,   \* the meshes of bodyMeshesRef.current and the session owning them
  meshRef,         \* the session whose model meshRef.current is, 0 for null
  sessions,        \* one record per run of the main effect
  textures,        \* one record per texture object created
  \* ---- the design and the debug tools of ThreeViewer
  design,          \* the revision of the 2D design (layers, baseColor)
  textureFlipY,    \* React state
  flatShading,     \* React state
  wireframeMode,   \* React state
  showUVDebug,     \* window.__showUVDebug
  solidColorDebug, \* window.__solidColorDebug
  pendingUpload,   \* the custom images being read: how many handlers closed over each flipY
  toolClicks,      \* number of clicks on the debug tools so far
  \* ---- the pack cache (getCachedPack, cachePack, downloadPack)
  kStore,          \* the object store 'pck-files': the entry kept for each url
  kCalls,          \* one record per call of downloadPack
  \* ---- the render loop of ThreeViewer
  animationFrameRef, \* animationFrameRef.current: the id of the last frame requested, 0 for null
  pendingFrames,     \* the frame callbacks requested and neither run nor cancelled
  frameCount,        \* the number of frames requested so far (the ids handed out)
  framePc            \* the session whose animate is between its request and its return, 0 if none

cvars == <<cInput, cGraph, cMaterials, cBody, cPass>>
rvars == <<rModules, rFolder, rResult, rPc>>
vvars == <<isOpen, folder, loading, loadingProgress, error, modelFormat,
           rendererRef, textureRef, bodyMeshesRef, meshRef, sessions, textures>>
dvars == <<design, textureFlipY, flatShading, wireframeMode, showUVDebug, solidColorDebug, pendingUpload,
           toolClicks>>
kvars == <<kStore, kCalls>>
fvars == <<animationFrameRef, pendingFrames, frameCount, framePc>>

(***************************************************************************)
(* Strings.  A material name is a string; Chars gives its characters, so   *)
(* that String.prototype.includes is a real substring test.                *)
(***************************************************************************)
Chars(s) ==
  CASE s = "" -> <<>>
    [] s = "unnamed" -> <<"u", "n", "n", "a", "m", "e", "d">>
    [] s = "Body_Paint" -> <<"B", "o", "d", "y", "_", "P", "a", "i", "n", "t">>
    [] s = "Window_Glass" -> <<"W", "i", "n", "d", "o", "w", "_", "G", "l", "a", "s", "s">>
    [] s = "ExteriorFade" -> <<"E", "x", "t", "e", "r", "i", "o", "r", "F", "a", "d", "e">>
    [] s = "PaintFade" -> <<"P", "a", "i", "n", "t", "F", "a", "d", "e">>
    [] s = "Exterior" -> <<"E", "x", "t", "e", "r", "i", "o", "r">>
    [] s = "Paint_Glass" -> <<"P", "a", "i", "n", "t", "_", "G", "l", "a", "s", "s">>
    [] s = "Glass_PaintFade" -> <<"G", "l", "a", "s", "s", "_", "P", "a", "i", "n", "t", "F", "a", "d", "e">>
    [] s = "Paint_Chrome" -> <<"P", "a", "i", "n", "t", "_", "C", "h", "r", "o", "m", "e">>
    [] s = "ExteriorFade_Decor" -> <<"E", "x", "t", "e", "r", "i", "o", "r", "F", "a", "d", "e", "_", "D", "e", "c", "o", "r">>
    [] s = "Wheel" -> <<"W", "h", "e", "e", "l">>
    [] s = "paint" -> <<"p", "a", "i", "n", "t">>
    [] s = "Frunk_Paint" -> <<"F", "r", "u", "n", "k", "_", "P", "a", "i", "n", "t">>
    [] s = "Fade" -> <<"F", "a", "d", "e">>
    [] s = "Fade_Paint" -> <<"F", "a", "d", "e", "_", "P", "a", "i", "n", "t">>
    [] s = "Paint" -> <<"P", "a", "i", "n", "t">>
    [] s = "Glass" -> <<"G", "l", "a", "s", "s">>
    [] s = "Interior" -> <<"I", "n", "t", "e", "r", "i", "o", "r">>
    [] s = "Lights" -> <<"L", "i", "g", "h", "t", "s">>
    [] s = "Leather" -> <<"L", "e", "a", "t", "h", "e", "r">>
    [] s = "Plastic" -> <<"P", "l", "a", "s", "t", "i", "c">>
    [] s = "Chrome" -> <<"C", "h", "r", "o", "m", "e">>
    [] s = "Aluminum" -> <<"A", "l", "u", "m", "i", "n", "u", "m">>
    [] s = "Rubber" -> <<"R", "u", "b", "b", "e", "r">>
    [] s = "Carpet" -> <<"C", "a", "r", "p", "e", "t">>
    [] s = "Seatbelts" -> <<"S", "e", "a", "t", "b", "e", "l", "t", "s">>
    [] s = "Grille" -> <<"G", "r", "i", "l", "l", "e">>
    [] s = "Chargeport" -> <<"C", "h", "a", "r", "g", "e", "p", "o", "r", "t">>
    [] s = "Plates" -> <<"P", "l", "a", "t", "e", "s">>
    [] s = "Ground" -> <<"G", "r", "o", "u", "n", "d">>
    [] s = "Mirror" -> <<"M", "i", "r", "r", "o", "r">>
    [] s = "Suede" -> <<"S", "u", "e", "d", "e">>
    [] s = "Decor" -> <<"D", "e", "c", "o", "r">>
    [] s = "Screen" -> <<"S", "c", "r", "e", "e", "n">>
    [] s = "Zero_Black" -> <<"Z", "e", "r", "o", "_", "B", "l", "a", "c", "k">>
    [] s = "Frunk" -> <<"F", "r", "u", "n", "k">>

\* s.includes(t): t occurs in s as a contiguous run of characters
Includes(s, t) ==
  LET cs == Chars(s)
      ct == Chars(t)
  IN \E i \in 1..(Len(cs) - Len(ct) + 1) : SubSeq(cs, i, i + Len(ct) - 1) = ct

\* the value of an absent property (undefined)
Undef == -1

(***************************************************************************)
(* Material classifier and texture binder: applyWrapTexture                *)
(***************************************************************************)
paintMaterialNames == {"Paint", "Exterior"}

\* the exclusion list with its last entry lost
excludeMaterialNamesNoFrunk ==
  {"Glass", "Interior", "Lights", "Leather", "Plastic", "Chrome", "Aluminum",
   "Rubber", "Carpet", "Seatbelts", "Grille", "Chargeport", "Plates", "Ground",
   "Mirror", "Suede", "Decor", "Screen", "Zero_Black"}

excludeMaterialNames ==
  {"Glass", "Interior", "Lights", "Leather", "Plastic", "Chrome", "Aluminum",
   "Rubber", "Carpet", "Seatbelts", "Grille", "Chargeport", "Plates", "Ground",
   "Mirror", "Suede", "Decor", "Screen", "Zero_Black", "Frunk"}

\* thresholds of the classifier, in hundredths
GlassOpacity == 50
OpaqueOpacity == 90
MetalnessMin == 30
RoughnessMax == 80

\* materialIndexToName: index -> name, only for entries with a truthy name
\* (JavaScript index k is position k + 1 of the sequence)
MaterialIndexHas(gltfMaterials, k) ==
  k + 1 \in DOMAIN gltfMaterials /\ gltfMaterials[k + 1].name # ""

\* the material name the classifier decides on
ResolvedName(mat, gltfMaterials) ==
  LET own == IF mat.name # "" THEN mat.name ELSE mat.gltfName
      materialIndex == IF mat.gltfIndex # Undef THEN mat.gltfIndex ELSE mat.matIndex
  IN IF own = "" /\ materialIndex # Undef /\ MaterialIndexHas(gltfMaterials, materialIndex)
       THEN gltfMaterials[materialIndex + 1].name
       ELSE own

\* material instanceof MeshStandardMaterial || material instanceof MeshPhysicalMaterial
IsStandardMaterial(mat) == mat.kind \in {"standard", "physical"}

IsPaintMaterial(materialName) ==
  \E n \in paintMaterialNames : Includes(materialName, n)

IsExcluded(materialName) ==
  \E n \in excludeMaterialNames : Includes(materialName, n)

IsFadePaintMaterial(materialName) ==
  /\ Includes(materialName, "ExteriorFade") \/ Includes(materialName, "PaintFade")
  /\ ~IsExcluded(materialName)

\* the glass test without its opacity bound: any transparent material is glass
IsGlassMaterialAnyTransparent(mat, materialName) ==
  \/ Includes(materialName, "Glass")
  \/ mat.transparent

IsGlassMaterial(mat, materialName) ==
  \/ Includes(materialName, "Glass")
  \/ mat.transparent /\ mat.opacity < GlassOpacity

\* the heuristic with its two bounds inclusive
PaintByPropertiesInclusive(mat, materialName) ==
  LET isOpaque == ~mat.transparent \/ mat.opacity >= OpaqueOpacity
      hasMetalness == mat.metalness # Undef /\ mat.metalness >= MetalnessMin
      isNotTooRough == mat.roughness # Undef /\ mat.roughness <= RoughnessMax
  IN isOpaque /\ hasMetalness /\ isNotTooRough /\ ~IsExcluded(materialName)

\* fallback heuristic for unnamed materials
PaintByProperties(mat, materialName) ==
  LET isOpaque == ~mat.transparent \/ mat.opacity >= OpaqueOpacity
      hasMetalness == mat.metalness # Undef /\ mat.metalness > MetalnessMin
      isNotTooRough == mat.roughness # Undef /\ mat.roughness < RoughnessMax
  IN isOpaque /\ hasMetalness /\ isNotTooRough /\ ~IsExcluded(materialName)

\* the decision with the fade-paint branch tested before the glass branch
ShouldApplyWrapFadeFirst(mat, materialName) ==
  IF ~IsStandardMaterial(mat) THEN FALSE
  ELSE IF IsFadePaintMaterial(materialName) THEN TRUE
  ELSE IF IsGlassMaterial(mat, materialName) THEN FALSE
  ELSE IF IsPaintMaterial(materialName) /\ ~IsExcluded(materialName) THEN TRUE
  ELSE IF materialName = "" \/ materialName = "unnamed" THEN PaintByProperties(mat, materialName)
  ELSE FALSE

\* the decision with the heuristic as a plain else branch, named materials included
ShouldApplyWrapHeuristicForAll(mat, materialName) ==
  IF ~IsStandardMaterial(mat) THEN FALSE
  ELSE IF IsGlassMaterial(mat, materialName) THEN FALSE
  ELSE IF IsFadePaintMaterial(materialName) THEN TRUE
  ELSE IF IsPaintMaterial(materialName) /\ ~IsExcluded(materialName) THEN TRUE
  ELSE PaintByProperties(mat, materialName)

\* shouldApplyWrap of one mesh
ShouldApplyWrap(mat, materialName) ==
  IF ~IsStandardMaterial(mat) THEN FALSE
  ELSE IF IsGlassMaterial(mat, materialName) THEN FALSE
  ELSE IF IsFadePaintMaterial(materialName) THEN TRUE
  ELSE IF IsPaintMaterial(materialName) /\ ~IsExcluded(materialName) THEN TRUE
  ELSE IF materialName = "" \/ materialName = "unnamed" THEN PaintByProperties(mat, materialName)
  ELSE FALSE

\* the replacement material with the transparency of the original kept for every name
WrapMaterialKeepTransparency(mat, materialName, texture) ==
  LET isFadeMaterial == Includes(materialName, "Fade")
  IN [name |-> "", gltfName |-> "", gltfIndex |-> Undef, matIndex |-> Undef,
      kind |-> "standard",
      transparent |-> mat.transparent,
      opacity |-> IF mat.opacity # Undef THEN mat.opacity ELSE 100,
      metalness |-> IF mat.metalness # Undef THEN mat.metalness ELSE 60,
      roughness |-> IF mat.roughness # Undef THEN mat.roughness ELSE 40,
      flatShading |-> FALSE,
      wireframe |-> FALSE,
      depthWrite |-> ~isFadeMaterial,
      map |-> texture,
      color |-> mat.color,
      needsUpdate |-> TRUE,
      made |-> "wrap"]

\* the replacement material with depth-write left on for every name
WrapMaterialDepthWriteAlways(mat, materialName, texture) ==
  LET isFadeMaterial == Includes(materialName, "Fade")
  IN [name |-> "", gltfName |-> "", gltfIndex |-> Undef, matIndex |-> Undef,
      kind |-> "standard",
      transparent |-> isFadeMaterial /\ mat.transparent,
      opacity |-> IF isFadeMaterial /\ mat.opacity # Undef THEN mat.opacity ELSE 100,
      metalness |-> IF mat.metalness # Undef THEN mat.metalness ELSE 60,
      roughness |-> IF mat.roughness # Undef THEN mat.roughness ELSE 40,
      flatShading |-> FALSE,
      wireframe |-> FALSE,
      depthWrite |-> TRUE,
      map |-> texture,
      color |-> mat.color,
      needsUpdate |-> TRUE,
      made |-> "wrap"]

\* the replacement material of a receives-wrap mesh
WrapMaterial(mat, materialName, texture) ==
  LET isFadeMaterial == Includes(materialName, "Fade")
  IN [name |-> "", gltfName |-> "", gltfIndex |-> Undef, matIndex |-> Undef,
      kind |-> "standard",
      transparent |-> isFadeMaterial /\ mat.transparent,
      opacity |-> IF isFadeMaterial /\ mat.opacity # Undef THEN mat.opacity ELSE 100,
      metalness |-> IF mat.metalness # Undef THEN mat.metalness ELSE 60,
      roughness |-> IF mat.roughness # Undef THEN mat.roughness ELSE 40,
      flatShading |-> FALSE,
      wireframe |-> FALSE,
      depthWrite |-> ~isFadeMaterial,
      map |-> texture,
      color |-> mat.color,
      needsUpdate |-> TRUE,
      made |-> "wrap"]

\* the traverse step tagging the mesh with the material's own name property
ProcessMeshTagOwnName(mesh, gltfMaterials, texture) ==
  LET material == mesh.material
      materialName == ResolvedName(material, gltfMaterials)
      branch ==
        IF ShouldApplyWrap(material, materialName)
          THEN [mesh EXCEPT
                  !.material = WrapMaterial(material, materialName, texture),
                  !.tag = material.name,
                  !.normals = TRUE,
                  !.renderOrder = IF Includes(materialName, "Fade") THEN 100 ELSE @]
          ELSE IF IsStandardMaterial(material)
            THEN [mesh EXCEPT
                    !.material = [material EXCEPT !.flatShading = FALSE, !.needsUpdate = TRUE],
                    !.normals = TRUE]
            ELSE mesh
  IN [branch EXCEPT !.castShadow = TRUE, !.receiveShadow = TRUE]

\* the traverse step with the else branch dropping the material's own map
ProcessMeshRetainNoMap(mesh, gltfMaterials, texture) ==
  LET material == mesh.material
      materialName == ResolvedName(material, gltfMaterials)
      branch ==
        IF ShouldApplyWrap(material, materialName)
          THEN [mesh EXCEPT
                  !.material = WrapMaterial(material, materialName, texture),
                  !.tag = materialName,
                  !.normals = TRUE,
                  !.renderOrder = IF Includes(materialName, "Fade") THEN 100 ELSE @]
          ELSE IF IsStandardMaterial(material)
            THEN [mesh EXCEPT
                    !.material = [material EXCEPT !.flatShading = FALSE, !.needsUpdate = TRUE, !.map = 0],
                    !.normals = TRUE]
            ELSE mesh
  IN [branch EXCEPT !.castShadow = TRUE, !.receiveShadow = TRUE]

\* what one traverse step does to one mesh: the branch of its decision, then
\* the shadow flags of every mesh
ProcessMesh(mesh, gltfMaterials, texture) ==
  LET material == mesh.material
      materialName == ResolvedName(material, gltfMaterials)
      branch ==
        IF ShouldApplyWrap(material, materialName)
          THEN [mesh EXCEPT
                  !.material = WrapMaterial(material, materialName, texture),
                  !.tag = materialName,
                  !.normals = TRUE,
                  !.renderOrder = IF Includes(materialName, "Fade") THEN 100 ELSE @]
          ELSE IF IsStandardMaterial(material)
            THEN [mesh EXCEPT
                    !.material = [material EXCEPT !.flatShading = FALSE, !.needsUpdate = TRUE],
                    !.normals = TRUE]
            ELSE mesh
  IN [branch EXCEPT !.castShadow = TRUE, !.receiveShadow = TRUE]

\* meshesToUpdate: the meshes the traverse pushed, as positions in the graph
MeshesToUpdate(graph, gltfMaterials) ==
  {i \in DOMAIN graph :
     ShouldApplyWrap(graph[i].material, ResolvedName(graph[i].material, gltfMaterials))}

\* the scene graph after the pass
GraphAfterWrap(graph, gltfMaterials, texture) ==
  [i \in DOMAIN graph |-> ProcessMesh(graph[i], gltfMaterials, texture)]

(***************************************************************************)
(* Asset resolver: getGltfUrl                                              *)
(* A glob path and a URL are kept as their "/"-separated segments; a URL   *)
(* <<"src", "a.gltf">> is the string "/src/a.gltf".                        *)
(***************************************************************************)
\* the null a resolver may return
NoUrl == <<>>

fallbackNames == <<"ModelY_High.gltf", "vehicle.gltf", "model.gltf">>

\* globPath.includes(`/${folderName}/3D/`)
PathIncludesFolder(globPath, folderName) ==
  \E i \in 2..(Len(globPath) - 2) : globPath[i] = folderName /\ globPath[i + 1] = "3D"

\* module && typeof module === 'string'
IsUrlString(module) == module.isString /\ module.url # NoUrl

\* the for loop over Object.entries(gltfModules), from entry k on
RECURSIVE GlobLookup(_, _, _)
GlobLookup(modules, folderName, k) ==
  IF k > Len(modules) THEN NoUrl
  ELSE IF PathIncludesFolder(modules[k].path, folderName) /\ IsUrlString(modules[k].module)
    THEN modules[k].module.url
    ELSE GlobLookup(modules, folderName, k + 1)

\* the loop over fallbackNames returns in its first iteration
FallbackPath(folderName) ==
  IF Len(fallbackNames) > 0
    THEN <<"src", "assets", "wraps", folderName, "3D", fallbackNames[1]>>
    ELSE NoUrl

GetGltfUrl(modules, folderName) ==
  LET found == GlobLookup(modules, folderName, 1)
  IN IF found # NoUrl THEN found ELSE FallbackPath(folderName)

\* url.startsWith('/src/')
StartsWithSrc(url) == Len(url) >= 2 /\ url[1] = "src"

(***************************************************************************)
(* Inputs                                                                  *)
(***************************************************************************)
MaterialNames ==
  {"", "unnamed", "Body_Paint", "Window_Glass", "ExteriorFade", "PaintFade", "Exterior",
   "Paint_Glass", "Glass_PaintFade", "Paint_Chrome", "ExteriorFade_Decor", "Wheel", "paint",
   "Frunk_Paint", "Fade", "Fade_Paint"}

\* where the scene carries the name: on the material, in its userData, in the
\* document's material array under one of the two index keys, or only in the
\* array with no index on the material
NameRoutes == {"name", "userData", "gltfIndex", "matIndex", "none"}

Opacities == {49, 50, 89, 90, 100}
Metalnesses == {0, 30, 31}
Roughnesses == {79, 80, 100}

\* a material as GLTFLoader builds it; only standard and physical materials
\* have metalness and roughness
LoadedMaterial(n, route, kind, tr, op, me, ro) ==
  [name |-> IF route = "name" THEN n ELSE "",
   gltfName |-> IF route = "userData" THEN n ELSE "",
   gltfIndex |-> IF route = "gltfIndex" THEN 0 ELSE Undef,
   matIndex |-> IF route = "matIndex" THEN 0 ELSE Undef,
   kind |-> kind, transparent |-> tr, opacity |-> op,
   metalness |-> me, roughness |-> ro,
   flatShading |-> FALSE, wireframe |-> FALSE, depthWrite |-> TRUE, map |-> 0,
   color |-> "ffffff", needsUpdate |-> FALSE, made |-> "gltf"]

\* the texture a scene document gives a material as its base colour map
OwnMap == -3

\* the base colours a scene document gives its materials
LoadedColors == {"ffffff", "c0392b"}

\* the material as GLTFLoader assigns it to a mesh: flat-shaded when the
\* geometry carries no normals, with the document's base colour map if any
\* and its base colour
AssignedMaterial(mat, flat, ownMap, color) ==
  [mat EXCEPT !.flatShading = flat, !.map = ownMap, !.color = color]

\* a mesh as GLTFLoader builds it: no userData.originalMaterialName, normals
\* not recomputed, casting and receiving no shadow
LoadedMesh(mat) ==
  [material |-> mat, tag |-> "untagged", normals |-> FALSE, renderOrder |-> 0,
   castShadow |-> FALSE, receiveShadow |-> FALSE]

InputCases ==
  {<<n, route, kind, tr, op, me, ro>> :
     n \in MaterialNames, route \in NameRoutes, kind \in {"standard", "physical"},
     tr \in BOOLEAN, op \in Opacities, me \in Metalnesses, ro \in Roughnesses}
  \cup
  {<<n, route, "basic", tr, op, Undef, Undef>> :
     n \in MaterialNames, route \in NameRoutes, tr \in BOOLEAN, op \in Opacities}

Folders == {"modely", "model3", "cybertruck"}

GlobEntries ==
  {[path |-> <<"..", "assets", "wraps", "modely", "3D", "ModelY_High.gltf">>,
    module |-> [isString |-> TRUE, url |-> <<"src", "assets", "wraps", "modely", "3D", "ModelY_High.gltf">>]],
   [path |-> <<"..", "assets", "wraps", "modely", "3D", "ModelY_High.gltf">>,
    module |-> [isString |-> TRUE, url |-> <<"assets", "ModelY_High-4f2a.gltf">>]],
   [path |-> <<"..", "assets", "wraps", "model3", "3D", "Model3.gltf">>,
    module |-> [isString |-> TRUE, url |-> <<"assets", "Model3-91bc.gltf">>]],
   [path |-> <<"..", "assets", "wraps", "modely", "3D", "ModelY_High.gltf">>,
    module |-> [isString |-> FALSE, url |-> NoUrl]],
   [path |-> <<"..", "assets", "wraps", "legacy", "model3", "3D", "old.gltf">>,
    module |-> [isString |-> TRUE, url |-> <<"src", "assets", "wraps", "legacy", "model3", "3D", "old.gltf">>]]}

\* bounds of the model
MaxPasses == 2
MaxModules == 2

RECURSIVE SeqsUpTo(_, _)
SeqsUpTo(S, n) ==
  IF n = 0 THEN {<<>>}
  ELSE LET shorter == SeqsUpTo(S, n - 1)
       IN shorter \cup {Append(q, e) : q \in {p \in shorter : Len(p) = n - 1}, e \in S}

GlobTables == SeqsUpTo(GlobEntries, MaxModules)

\* the variables of the parts a specification leaves alone

CIdle ==
  /\ cInput = <<>>
  /\ cGraph = <<>>
  /\ cMaterials = <<>>
  /\ cBody = {}
  /\ cPass = 0

\* the pack files requested and the versions asked for
Urls == {"a.pck", "b.pck"}
Versions == {"v1", "v2"}

\* no entry under a url: store.get yields undefined
NoEntry == [present |-> FALSE, version |-> "", data |-> 0]

\* the cache of a fresh profile, no call made
KIdle ==
  /\ kStore = [u \in Urls |-> NoEntry]
  /\ kCalls = <<>>

RIdle ==
  /\ rModules = <<>>
  /\ rFolder = "modely"
  /\ rResult = NoUrl
  /\ rPc = "idle"


(***************************************************************************)
(* ThreeViewer: the viewport sessions (runs of the main effect), their     *)
(* scene loads and the teardown                                            *)
(***************************************************************************)
\* the scene document served for each model folder: its meshes as GLTFLoader
\* builds them, and its material array
BodyPaint == LoadedMaterial("Body_Paint", "name", "standard", FALSE, 100, 0, 40)
WindowGlass == LoadedMaterial("Window_Glass", "name", "physical", TRUE, 49, 0, 0)
ExteriorFadeMat == LoadedMaterial("ExteriorFade", "gltfIndex", "standard", TRUE, 89, 31, 40)
UnnamedPanel == LoadedMaterial("", "name", "standard", FALSE, 100, 31, 79)
WheelMat == LoadedMaterial("Wheel", "name", "standard", FALSE, 100, 100, 40)

SceneMeshes(folderName) ==
  IF folderName = "modely"
    THEN <<LoadedMesh(BodyPaint), LoadedMesh(WindowGlass), LoadedMesh(ExteriorFadeMat)>>
    ELSE <<LoadedMesh(UnnamedPanel), LoadedMesh(WheelMat)>>

SceneMaterials(folderName) ==
  IF folderName = "modely"
    THEN <<[name |-> "ExteriorFade"], [name |-> "Body_Paint"], [name |-> "Window_Glass"]>>
    ELSE <<[name |-> ""], [name |-> "Wheel"]>>

\* the glob table of the build the viewer runs in: one model served from the
\* development path /src/..., one from a bundled asset path
ViewerModules ==
  <<[path |-> <<"..", "assets", "wraps", "modely", "3D", "ModelY_High.gltf">>,
     module |-> [isString |-> TRUE, url |-> <<"src", "assets", "wraps", "modely", "3D", "ModelY_High.gltf">>]],
    [path |-> <<"..", "assets", "wraps", "model3", "3D", "Model3.gltf">>,
     module |-> [isString |-> TRUE, url |-> <<"assets", "Model3-91bc.gltf">>]]>>

ViewerFolders == {"modely", "model3"}

\* the scene file arrives in chunks of these sizes; a progress event follows each
ChunkSizes == <<3, 4>>

\* the length header of the same file sent compressed
CompressedLength == 5

RECURSIVE SumTo(_, _)
SumTo(q, k) == IF k = 0 THEN 0 ELSE q[k] + SumTo(q, k - 1)

\* bounds of the model: runs of the main effect, in the viewer
\* specification and in the load specifications
MaxSessions == 2
MaxLoads == 2
MaxLiveLoads == 1

\* 2^n
RECURSIVE Pow2(_)
Pow2(n) == IF n = 0 THEN 1 ELSE 2 * Pow2(n - 1)

\* the exponent e of the quotient m / 15 as a double: 2^e <= m / 15 < 2^(e + 1)
\* (m >= 15)
RECURSIVE QuotientExponent(_, _)
QuotientExponent(m, e) ==
  IF m < 15 * Pow2(e + 1) THEN e ELSE QuotientExponent(m, e + 1)

\* (loaded / total) * 60 in double arithmetic when the exact product is the
\* half-integer m / 2 (m odd): the quotient m / 120 is rounded to 53 bits and
\* so is its product with 60, which ends below m / 2 exactly when m is in the
\* lower sixteenth of its binade of fifteenths and the quotient was rounded
\* down by more than half a unit of the last place of m; r is the remainder
\* of the quotient's 53-bit significand (2^4 = 1 modulo 15)
ProductBelowHalf(m) ==
  /\ m >= 15
  /\ LET e == QuotientExponent(m, 0)
          r == ((m % 15) * Pow2((4 - (e % 4)) % 4)) % 15
     IN m < 16 * Pow2(e) /\ r \in {5, 6, 7}

\* Math.round((loaded / total) * 60) + 20: the exact product rounded half
\* up, but a half-integer the double product ends below is rounded down
\* (total > 0; an error of the double product is too small to matter
\* anywhere else)
ProgressPercent(loaded, total) ==
  LET exact == (2 * loaded * 60 + total) \div (2 * total)
      m == (120 * loaded) \div total
      half == (120 * loaded) % total = 0 /\ m % 2 = 1
  IN (IF half /\ ProductBelowHalf(m) THEN exact - 1 ELSE exact) + 20

\* gltfUrl.replace(/^\/src/, '')
StripSrc(url) == IF StartsWithSrc(url) THEN Tail(url) ELSE url

\* the urlAttempts array of the fallback, and its length
UrlAttemptsOf(gltfUrl) == <<gltfUrl, StripSrc(gltfUrl)>>
UrlAttempts == 2

NoError == "null"
\* no custom image being read
NoUpload == [f \in BOOLEAN |-> 0]

\* what a texture's image is when it is not a rasterization of the design
\* (those are numbered by the design revision): an uploaded file, the UV grid
FileImage == -1
UvImage == -2

\* the design and the debug tools as the component mounts
DIdle ==
  /\ design = 0
  /\ textureFlipY = FALSE
  /\ flatShading = FALSE
  /\ wireframeMode = FALSE
  /\ showUVDebug = FALSE
  /\ solidColorDebug = FALSE
  /\ pendingUpload = NoUpload
  /\ toolClicks = 0

\* the render loop as the component mounts: no frame requested
FIdle ==
  /\ animationFrameRef = 0
  /\ pendingFrames = {}
  /\ frameCount = 0
  /\ framePc = 0

NoBody == [owner |-> 0, meshes |-> {}]

\* bodyMeshesRef.current as set by applyWrapTexture run by session s
BodyOf(s, meshes) == IF meshes = {} THEN NoBody ELSE [owner |-> s, meshes |-> meshes]

VIdle ==
  /\ isOpen = FALSE
  /\ folder = "modely"
  /\ loading = TRUE
  /\ loadingProgress = 0
  /\ error = NoError
  /\ modelFormat = "null"
  /\ rendererRef = 0
  /\ textureRef = 0
  /\ bodyMeshesRef = NoBody
  /\ meshRef = 0
  /\ sessions = <<>>
  /\ textures = <<>>
  /\ DIdle
  /\ FIdle

\* the component as mounted with isOpen false: useState and useRef initial values
InitViewer ==
  /\ isOpen = FALSE
  /\ folder \in ViewerFolders
  /\ loading = TRUE
  /\ loadingProgress = 0
  /\ error = NoError
  /\ modelFormat = "null"
  /\ rendererRef = 0
  /\ textureRef = 0
  /\ bodyMeshesRef = NoBody
  /\ meshRef = 0
  /\ sessions = <<>>
  /\ textures = <<>>
  /\ DIdle
  /\ FIdle
  /\ KIdle
  /\ CIdle
  /\ RIdle

\* the session a run of the main effect starts: renderer created, then
\* loadGLTFModel up to the start of the primary load
NewSession(folderName) ==
  LET gltfUrl == GetGltfUrl(ViewerModules, folderName)
  IN [folder |-> folderName,
      url |-> gltfUrl,
      pc |-> IF gltfUrl = NoUrl THEN "failed" ELSE "primary",
      attemptIndex |-> 0,
      loadUrl |-> gltfUrl,
      loads |-> IF gltfUrl = NoUrl THEN 0 ELSE 1,
      fetched |-> FALSE,
      chunks |-> 0,
      tornDown |-> FALSE,
      rendererDisposed |-> FALSE,
      graph |-> <<>>,
      rootMaterials |-> <<>>,
      via |-> "none",
      inScene |-> FALSE]

\* animationFrameRef.current = requestAnimationFrame(animate), called by the
\* animate of session s with the callbacks in pending outstanding
RequestFrame(pending, s) ==
  /\ frameCount' = frameCount + 1
  /\ animationFrameRef' = frameCount + 1
  /\ pendingFrames' = pending \cup {[id |-> frameCount + 1, session |-> s]}

\* the body of the main effect for isOpen true, with the frame callbacks in
\* pending outstanding: the renderer, loadGLTFModel, and the first call of
\* animate, which requests a frame, updates the controls and renders
RunEffect(base, folderName, pending) ==
  LET new == NewSession(folderName)
  IN /\ sessions' = Append(base, new)
     /\ rendererRef' = Len(base) + 1
     /\ loadingProgress' = IF new.pc = "failed" THEN 10 ELSE 20
     /\ error' = IF new.pc = "failed" THEN "No 3D model file found" ELSE NoError
     /\ loading' = (new.pc # "failed")
     /\ RequestFrame(pending, Len(base) + 1)
     /\ framePc' = 0

\* the cleanup with its cancelAnimationFrame left out
CancelledFramesNone == pendingFrames

\* the cleanup of the main effect, on the frame callbacks:
\* cancelAnimationFrame(animationFrameRef.current) if the ref is set
CancelledFrames ==
  IF animationFrameRef # 0
    THEN {f \in pendingFrames : f.id # animationFrameRef}
    ELSE pendingFrames

\* the cleanup the main effect returned, run on the sessions and textures
TornDownSessions ==
  [sessions EXCEPT ![Len(sessions)] = [@ EXCEPT !.tornDown = TRUE, !.rendererDisposed = TRUE]]

DisposedTextures ==
  IF textureRef = 0 THEN textures
  ELSE [textures EXCEPT ![textureRef] = [@ EXCEPT !.disposed = TRUE]]

\* the texture-update effect with isOpen true: the image of textureRef.current
\* becomes the rasterization of the design, and the texture is marked dirty
TextureUpdated(texs, d, stage) ==
  IF textureRef # 0 /\ stage
    THEN [texs EXCEPT ![textureRef] = [@ EXCEPT !.image = d, !.dirty = TRUE]]
    ELSE texs

\* isOpen becomes true: the main effect runs, then the texture-update effect
\* (n bounds the runs modelled)
OpenViewportUpTo(n) ==
  /\ ~isOpen
  /\ Len(sessions) < n
  /\ isOpen' = TRUE
  /\ RunEffect(sessions, folder, pendingFrames)
  /\ \E stage \in BOOLEAN : textures' = TextureUpdated(textures, design, stage)
  /\ UNCHANGED <<folder, modelFormat, textureRef, bodyMeshesRef, meshRef>>
  /\ UNCHANGED <<cvars, rvars, dvars, kvars>>

OpenViewport == OpenViewportUpTo(MaxSessions)

\* isOpen becomes false: the cleanup runs, the effect returns early
CloseViewport ==
  /\ isOpen
  /\ isOpen' = FALSE
  /\ sessions' = TornDownSessions
  /\ textures' = DisposedTextures
  /\ bodyMeshesRef' = NoBody
  /\ pendingFrames' = CancelledFrames
  /\ UNCHANGED <<folder, loading, loadingProgress, error, modelFormat,
                 rendererRef, textureRef, meshRef>>
  /\ UNCHANGED <<animationFrameRef, frameCount, framePc>>
  /\ UNCHANGED <<cvars, rvars, dvars, kvars>>

\* currentModelId changes: with the viewport open the cleanup runs and the
\* effect runs again for the new folder
ChangeModelUpTo(f, n) ==
  /\ f # folder
  /\ folder' = f
  /\ IF isOpen
       THEN /\ Len(sessions) < n
            /\ RunEffect(TornDownSessions, f, CancelledFrames)
            /\ textures' = DisposedTextures
            /\ bodyMeshesRef' = NoBody
       ELSE /\ UNCHANGED <<sessions, rendererRef, loadingProgress, error, loading,
                           textures, bodyMeshesRef>>
            /\ UNCHANGED fvars
  /\ UNCHANGED <<isOpen, modelFormat, textureRef, meshRef>>
  /\ UNCHANGED <<cvars, rvars, dvars, kvars>>

ChangeModel(f) == ChangeModelUpTo(f, MaxSessions)

\* a progress event of the fetch of session s: one more chunk has arrived;
\* total is the length header of the response: 0 without one, the size of
\* the file, or the smaller size of a compressed body
FetchProgress(s) ==
  /\ sessions[s].pc \in {"primary", "fetch"}
  /\ sessions[s].chunks < Len(ChunkSizes)
  /\ \E total \in {0, SumTo(ChunkSizes, Len(ChunkSizes)), CompressedLength} :
       loadingProgress' =
         IF total > 0
           THEN ProgressPercent(SumTo(ChunkSizes, sessions[s].chunks + 1), total)
           ELSE loadingProgress
  /\ sessions' = [sessions EXCEPT ![s] = [@ EXCEPT !.chunks = sessions[s].chunks + 1]]
  /\ UNCHANGED <<isOpen, folder, loading, error, modelFormat,
                 rendererRef, textureRef, bodyMeshesRef, meshRef, textures>>
  /\ UNCHANGED <<cvars, rvars, dvars, kvars, fvars>>

\* the scene document of a folder as JSON.parse returns it (a document
\* without materials has no materials property), and the result object
\* GLTFLoader hands to onLoad: the scene, the parser holding the document,
\* and no materials property of its own
SceneJson(folderName) ==
  [materials |-> SceneMaterials(folderName),
   hasMaterials |-> Len(SceneMaterials(folderName)) > 0]

GltfResult(folderName) ==
  [scene |-> SceneMeshes(folderName),
   parserJson |-> SceneJson(folderName),
   materials |-> <<>>,
   hasMaterials |-> FALSE]

\* the material array each onLoad handler takes from what it was given
\* gltf.parser?.json?.materials || [], else gltf.materials || []
PrimarySrcMaterials(gltf) ==
  LET gltfMaterials == IF gltf.parserJson.hasMaterials
                         THEN gltf.parserJson.materials ELSE <<>>
      gltfMaterialsAlt == IF gltf.hasMaterials THEN gltf.materials ELSE <<>>
  IN IF Len(gltfMaterials) > 0 THEN gltfMaterials ELSE gltfMaterialsAlt

\* gltf.parser?.json?.materials || gltf.materials || []
PrimaryMaterials(gltf) ==
  IF gltf.parserJson.hasMaterials THEN gltf.parserJson.materials
  ELSE IF gltf.hasMaterials THEN gltf.materials
  ELSE <<>>

FallbackMaterialsEmpty(json) == <<>>

\* json.materials || []
FallbackMaterials(json) == IF json.hasMaterials THEN json.materials ELSE <<>>

\* the statements the three onLoad handlers share, run by session s with the
\* material array mats the handler took: userData.gltfMaterials,
\* applyWrapTexture, centerAndScaleModel, progress 100, the 300 ms timer
OnLoaded(s, stage, gltf, mats, handler) ==
  LET doc == gltf.scene
      texture == Len(textures) + 1
      root == IF Len(mats) > 0 THEN mats ELSE <<>>
  IN /\ modelFormat' = "gltf"
     /\ IF stage
          THEN /\ textures' = Append(textures, [session |-> s, flipY |-> FALSE, disposed |-> FALSE,
                                                  image |-> design, kind |-> "canvas", dirty |-> TRUE])
               /\ textureRef' = texture
               /\ bodyMeshesRef' = BodyOf(s, MeshesToUpdate(doc, mats))
               /\ sessions' = [sessions EXCEPT ![s] =
                    [@ EXCEPT !.graph = GraphAfterWrap(doc, mats, texture),
                              !.rootMaterials = root, !.via = handler,
                              !.inScene = TRUE, !.pc = "timer", !.chunks = 0]]
          ELSE /\ UNCHANGED <<textures, textureRef, bodyMeshesRef>>
               /\ sessions' = [sessions EXCEPT ![s] =
                    [@ EXCEPT !.graph = doc, !.rootMaterials = root, !.via = handler,
                              !.inScene = TRUE, !.pc = "timer", !.chunks = 0]]
     /\ meshRef' = s
     /\ loadingProgress' = 100
     /\ UNCHANGED <<isOpen, folder, loading, error, rendererRef>>
     /\ UNCHANGED <<cvars, rvars, dvars, kvars, fvars>>

TryNextUrlOneAttempt(s, k, got) ==
  IF k >= UrlAttempts - 1
    THEN /\ error' = "Failed to load 3D model file. Try restarting the dev server."
         /\ loading' = FALSE
         /\ sessions' = [sessions EXCEPT ![s] =
              [@ EXCEPT !.attemptIndex = k, !.pc = "failed", !.chunks = 0,
                        !.fetched = @ \/ got]]
    ELSE /\ UNCHANGED <<error, loading>>
         /\ sessions' = [sessions EXCEPT ![s] =
              [@ EXCEPT !.attemptIndex = k, !.pc = "fetch", !.chunks = 0,
                        !.loadUrl = UrlAttemptsOf(sessions[s].url)[k + 1],
                        !.loads = @ + 1,
                        !.fetched = @ \/ got]]

TryNextUrlWrapAround(s, k, got) ==
  /\ UNCHANGED <<error, loading>>
  /\ sessions' = [sessions EXCEPT ![s] =
       [@ EXCEPT !.attemptIndex = k % UrlAttempts, !.pc = "fetch", !.chunks = 0,
                 !.loadUrl = UrlAttemptsOf(sessions[s].url)[(k % UrlAttempts) + 1],
                 !.fetched = @ \/ got]]

\* tryNextUrl of session s with attemptIndex already advanced to k; got
\* tells whether the fetch before it delivered a response
TryNextUrl(s, k, got) ==
  IF k >= UrlAttempts
    THEN /\ error' = "Failed to load 3D model file. Try restarting the dev server."
         /\ loading' = FALSE
         /\ sessions' = [sessions EXCEPT ![s] =
              [@ EXCEPT !.attemptIndex = k, !.pc = "failed", !.chunks = 0,
                        !.fetched = @ \/ got]]
    ELSE /\ UNCHANGED <<error, loading>>
         /\ sessions' = [sessions EXCEPT ![s] =
              [@ EXCEPT !.attemptIndex = k, !.pc = "fetch", !.chunks = 0,
                        !.loadUrl = UrlAttemptsOf(sessions[s].url)[k + 1],
                        !.loads = @ + 1,
                        !.fetched = @ \/ got]]

\* gltfLoader.load() of session s calls onLoad: the handler of the load of
\* a URL under /src/, or the handler of the normal load
PrimaryLoaded(s) ==
  LET gltf == GltfResult(sessions[s].folder)
  IN /\ sessions[s].pc = "primary"
     /\ \E stage \in BOOLEAN :
          IF StartsWithSrc(sessions[s].url)
            THEN OnLoaded(s, stage, gltf, PrimarySrcMaterials(gltf), "primary")
            ELSE OnLoaded(s, stage, gltf, PrimaryMaterials(gltf), "primary")

PrimaryFailedAlwaysFallback(s) ==
  /\ sessions[s].pc = "primary"
  /\ TryNextUrl(s, 0, FALSE)
  /\ UNCHANGED <<isOpen, folder, loadingProgress, modelFormat,
                 rendererRef, textureRef, bodyMeshesRef, meshRef, textures>>
  /\ UNCHANGED <<cvars, rvars, dvars, kvars, fvars>>

\* gltfLoader.load() of session s calls onError: the fallback for a URL
\* under /src/, the error state otherwise
PrimaryFailed(s) ==
  /\ sessions[s].pc = "primary"
  /\ IF StartsWithSrc(sessions[s].url)
       THEN TryNextUrl(s, 0, FALSE)
       ELSE /\ error' = "Failed to load 3D model"
            /\ loading' = FALSE
            /\ sessions' = [sessions EXCEPT ![s] = [@ EXCEPT !.pc = "failed", !.chunks = 0]]
  /\ UNCHANGED <<isOpen, folder, loadingProgress, modelFormat,
                 rendererRef, textureRef, bodyMeshesRef, meshRef, textures>>
  /\ UNCHANGED <<cvars, rvars, dvars, kvars, fvars>>

\* fileLoader.load() of session s calls onLoad: JSON.parse either throws
\* (next attempt) or yields the document handed to gltfLoader.parse
FetchLoaded(s) ==
  /\ sessions[s].pc = "fetch"
  /\ \E jsonOk \in BOOLEAN :
       IF jsonOk
         THEN /\ sessions' = [sessions EXCEPT ![s] =
                   [@ EXCEPT !.pc = "parse", !.chunks = 0, !.fetched = TRUE]]
              /\ UNCHANGED <<error, loading>>
         ELSE TryNextUrl(s, sessions[s].attemptIndex + 1, TRUE)
  /\ UNCHANGED <<isOpen, folder, loadingProgress, modelFormat,
                 rendererRef, textureRef, bodyMeshesRef, meshRef, textures>>
  /\ UNCHANGED <<cvars, rvars, dvars, kvars, fvars>>

\* fileLoader.load() of session s calls onError
FetchFailed(s) ==
  /\ sessions[s].pc = "fetch"
  /\ TryNextUrl(s, sessions[s].attemptIndex + 1, FALSE)
  /\ UNCHANGED <<isOpen, folder, loadingProgress, modelFormat,
                 rendererRef, textureRef, bodyMeshesRef, meshRef, textures>>
  /\ UNCHANGED <<cvars, rvars, dvars, kvars, fvars>>

\* gltfLoader.parse() of session s calls onLoad: json is the document the
\* fetch handler parsed
ParseLoaded(s) ==
  LET json == SceneJson(sessions[s].folder)
      gltf == GltfResult(sessions[s].folder)
  IN /\ sessions[s].pc = "parse"
     /\ \E stage \in BOOLEAN :
          OnLoaded(s, stage, gltf, FallbackMaterials(json), "fallback")

\* gltfLoader.parse() of session s calls onError
ParseFailed(s) ==
  /\ sessions[s].pc = "parse"
  /\ TryNextUrl(s, sessions[s].attemptIndex + 1, TRUE)
  /\ UNCHANGED <<isOpen, folder, loadingProgress, modelFormat,
                 rendererRef, textureRef, bodyMeshesRef, meshRef, textures>>
  /\ UNCHANGED <<cvars, rvars, dvars, kvars, fvars>>

\* the timer a successful load of session s set fires: setLoading(false)
LoadingTimer(s) ==
  /\ sessions[s].pc = "timer"
  /\ loading' = FALSE
  /\ sessions' = [sessions EXCEPT ![s] = [@ EXCEPT !.pc = "done"]]
  /\ UNCHANGED <<isOpen, folder, loadingProgress, error, modelFormat,
                 rendererRef, textureRef, bodyMeshesRef, meshRef, textures>>
  /\ UNCHANGED <<cvars, rvars, dvars, kvars, fvars>>

NextViewer ==
  \/ OpenViewport
  \/ CloseViewport
  \/ \E f \in ViewerFolders : ChangeModel(f)
  \/ \E s \in DOMAIN sessions : FetchProgress(s)
  \/ \E s \in DOMAIN sessions : PrimaryLoaded(s)
  \/ \E s \in DOMAIN sessions : PrimaryFailed(s)
  \/ \E s \in DOMAIN sessions : FetchLoaded(s)
  \/ \E s \in DOMAIN sessions : FetchFailed(s)
  \/ \E s \in DOMAIN sessions : ParseLoaded(s)
  \/ \E s \in DOMAIN sessions : ParseFailed(s)
  \/ \E s \in DOMAIN sessions : LoadingTimer(s)

\* the scene loads alone: the viewport opened, closed and switched, and the
\* completion callbacks of every load started
NextLoad ==
  \/ OpenViewportUpTo(MaxLoads)
  \/ CloseViewport
  \/ \E f \in ViewerFolders : ChangeModelUpTo(f, MaxLoads)
  \/ \E s \in DOMAIN sessions : PrimaryLoaded(s)
  \/ \E s \in DOMAIN sessions : PrimaryFailed(s)
  \/ \E s \in DOMAIN sessions : FetchLoaded(s)
  \/ \E s \in DOMAIN sessions : FetchFailed(s)
  \/ \E s \in DOMAIN sessions : ParseLoaded(s)
  \/ \E s \in DOMAIN sessions : ParseFailed(s)
  \/ \E s \in DOMAIN sessions : LoadingTimer(s)

\* the same with progress events, every callback and timer eventually run
NextLive ==
  \/ OpenViewportUpTo(MaxLiveLoads)
  \/ CloseViewport
  \/ \E f \in ViewerFolders : ChangeModelUpTo(f, MaxLiveLoads)
  \/ \E s \in DOMAIN sessions : FetchProgress(s)
  \/ \E s \in DOMAIN sessions : PrimaryLoaded(s)
  \/ \E s \in DOMAIN sessions : PrimaryFailed(s)
  \/ \E s \in DOMAIN sessions : FetchLoaded(s)
  \/ \E s \in DOMAIN sessions : FetchFailed(s)
  \/ \E s \in DOMAIN sessions : ParseLoaded(s)
  \/ \E s \in DOMAIN sessions : ParseFailed(s)
  \/ \E s \in DOMAIN sessions : LoadingTimer(s)

\* the completion of the pending fetch, parse or timer of load s
Completion(s) ==
  /\ s \in DOMAIN sessions
  /\ \/ PrimaryLoaded(s) \/ PrimaryFailed(s)
     \/ FetchLoaded(s) \/ FetchFailed(s)
     \/ ParseLoaded(s) \/ ParseFailed(s)
     \/ LoadingTimer(s)

(***************************************************************************)
(* The render loop: animate and the frame callbacks                        *)
(***************************************************************************)
\* bounds of the model: frames requested by frame callbacks, and runs of the
\* main effect in the render-loop specification
MaxFrames == 4
MaxFrameSessions == 2

\* the browser runs the pending frame callback f: animate requests the next
\* frame as its first statement
FrameStart(f) ==
  /\ framePc = 0
  /\ f \in pendingFrames
  /\ frameCount < MaxFrames
  /\ RequestFrame(pendingFrames \ {f}, f.session)
  /\ framePc' = f.session
  /\ UNCHANGED <<cvars, rvars, vvars, dvars, kvars>>

\* the rest of animate: the controls are updated and the scene rendered
\* (if the renderer, scene and camera refs are set), and animate returns
FrameWork ==
  /\ framePc # 0
  /\ framePc' = 0
  /\ UNCHANGED <<animationFrameRef, pendingFrames, frameCount>>
  /\ UNCHANGED <<cvars, rvars, vvars, dvars, kvars>>

\* the viewport opened, closed and switched, and the primary load completing,
\* between frames: an effect, a cleanup or a load callback never runs
\* inside a frame callback
NextFrames ==
  \/ framePc = 0 /\ OpenViewportUpTo(MaxFrameSessions)
  \/ framePc = 0 /\ CloseViewport
  \/ framePc = 0 /\ \E f \in ViewerFolders : ChangeModelUpTo(f, MaxFrameSessions)
  \/ framePc = 0 /\ \E s \in DOMAIN sessions : PrimaryLoaded(s)
  \/ framePc = 0 /\ \E s \in DOMAIN sessions : LoadingTimer(s)
  \/ \E f \in pendingFrames : FrameStart(f)
  \/ FrameWork

(***************************************************************************)
(* ThreeViewer: design edits and the debug tools                           *)
(***************************************************************************)
\* bounds of the model: design revisions, texture objects, and the runs of
\* the main effect in the design specification
MaxDesign == 1
MaxTextures == 2
MaxDesignLoads == 1
MaxToolClicks == 2

\* the overlay with the debug tools and the floating controls is rendered
ToolsVisible == isOpen /\ ~loading /\ error = NoError

\* a click on one of the debug tools (MaxToolClicks bounds the clicks of a run)
ToolClick ==
  /\ ToolsVisible
  /\ toolClicks < MaxToolClicks
  /\ toolClicks' = toolClicks + 1

\* the materials the debug tools construct
GrayMaterial ==
  [name |-> "", gltfName |-> "", gltfIndex |-> Undef, matIndex |-> Undef,
   kind |-> "standard", transparent |-> FALSE, opacity |-> 100,
   metalness |-> 50, roughness |-> 50, flatShading |-> FALSE,
   wireframe |-> FALSE,
   depthWrite |-> TRUE, map |-> 0, color |-> "888888", needsUpdate |-> FALSE,
   made |-> "gray"]

\* (the material of reapplyCanvasTexture takes its flat shading and its
\* wireframe from the component state, the material of the custom upload has
\* neither)
ToolMaterial(texture, tool) ==
  [name |-> "", gltfName |-> "", gltfIndex |-> Undef, matIndex |-> Undef,
   kind |-> "standard", transparent |-> FALSE, opacity |-> 100,
   metalness |-> 60, roughness |-> 40, flatShading |-> (tool = "canvas" /\ flatShading),
   wireframe |-> (tool = "canvas" /\ wireframeMode),
   depthWrite |-> TRUE, map |-> texture, color |-> "ffffff", needsUpdate |-> FALSE,
   made |-> tool]

\* bodyMeshesRef.current.forEach: the sessions with every receives-wrap mesh
\* replaced by its image under change (a function of the mesh index)
ForEachBodyMesh(change) ==
  IF bodyMeshesRef.owner = 0 THEN sessions
  ELSE [sessions EXCEPT ![bodyMeshesRef.owner] =
         [@ EXCEPT !.graph =
            [i \in DOMAIN @ |-> IF i \in bodyMeshesRef.meshes THEN change[i] ELSE @[i]]]]

BodyMesh(i) == sessions[bodyMeshesRef.owner].graph[i]

\* the position of mesh i in bodyMeshesRef.current
Rank(i) == Cardinality({j \in bodyMeshesRef.meshes : j <= i})

DesignEditNewTexture ==
  /\ design < MaxDesign
  /\ design' = design + 1
  /\ IF textureRef # 0 /\ isOpen /\ Len(textures) < MaxTextures
       THEN /\ textures' = Append(textures, [textures[textureRef] EXCEPT !.image = design', !.dirty = TRUE])
            /\ textureRef' = Len(textures) + 1
       ELSE UNCHANGED <<textures, textureRef>>
  /\ UNCHANGED <<isOpen, folder, loading, loadingProgress, error, modelFormat,
                 rendererRef, bodyMeshesRef, meshRef, sessions>>
  /\ UNCHANGED <<textureFlipY, flatShading, wireframeMode, showUVDebug, solidColorDebug, pendingUpload, toolClicks>>
  /\ UNCHANGED <<cvars, rvars, kvars, fvars>>

\* layers or baseColor change: the texture-update effect runs, with the
\* stage mounted or not
DesignEdit ==
  /\ design < MaxDesign
  /\ design' = design + 1
  /\ \E stage \in BOOLEAN :
       textures' = IF isOpen THEN TextureUpdated(textures, design', stage) ELSE textures
  /\ UNCHANGED <<isOpen, folder, loading, loadingProgress, error, modelFormat,
                 rendererRef, textureRef, bodyMeshesRef, meshRef, sessions>>
  /\ UNCHANGED <<textureFlipY, flatShading, wireframeMode, showUVDebug, solidColorDebug, pendingUpload, toolClicks>>
  /\ UNCHANGED <<cvars, rvars, kvars, fvars>>

\* clearTextures: a gray material without map on every receives-wrap mesh
ClearTextures ==
  /\ ToolClick
  /\ sessions' = ForEachBodyMesh(
       [i \in bodyMeshesRef.meshes |-> [BodyMesh(i) EXCEPT !.material = GrayMaterial]])
  /\ UNCHANGED <<isOpen, folder, loading, loadingProgress, error, modelFormat,
                 rendererRef, textureRef, bodyMeshesRef, meshRef, textures>>
  /\ UNCHANGED <<design, textureFlipY, flatShading, wireframeMode, showUVDebug, solidColorDebug, pendingUpload>>
  /\ UNCHANGED <<cvars, rvars, kvars, fvars>>

\* the number of custom images being read
PendingUploads == pendingUpload[TRUE] + pendingUpload[FALSE]

\* handleCustomTextureUpload up to reader.readAsDataURL: one more image is
\* being read, its handler closing over the textureFlipY of this render
\* (every image read makes a texture: MaxTextures bounds them)
StartCustomTextureUpload ==
  /\ ToolClick
  /\ rendererRef # 0
  /\ Len(textures) + PendingUploads < MaxTextures
  /\ pendingUpload' = [pendingUpload EXCEPT ![textureFlipY] = @ + 1]
  /\ UNCHANGED <<design, textureFlipY, flatShading, wireframeMode, showUVDebug, solidColorDebug>>
  /\ UNCHANGED <<cvars, rvars, vvars, kvars, fvars>>

CustomTextureLoadedKeepRef(f) ==
  LET texture == Len(textures) + 1
  IN /\ pendingUpload[f] > 0
     /\ Len(textures) < MaxTextures
     /\ pendingUpload' = [pendingUpload EXCEPT ![f] = @ - 1]
     /\ textures' = Append(textures,
          [session |-> 0, flipY |-> f, disposed |-> FALSE,
           image |-> FileImage, kind |-> "custom", dirty |-> TRUE])
     /\ UNCHANGED textureRef
     /\ sessions' = ForEachBodyMesh(
          [i \in bodyMeshesRef.meshes |->
             [BodyMesh(i) EXCEPT !.material = ToolMaterial(texture, "custom")]])
     /\ UNCHANGED <<isOpen, folder, loading, loadingProgress, error, modelFormat,
                    rendererRef, bodyMeshesRef, meshRef>>
     /\ UNCHANGED <<design, textureFlipY, flatShading, wireframeMode, showUVDebug, solidColorDebug, toolClicks>>
     /\ UNCHANGED <<cvars, rvars, kvars, fvars>>

\* img.onload of a custom image whose handler closed over flipY f: a texture
\* of the file becomes textureRef.current and the map of a new material on
\* every receives-wrap mesh
CustomTextureLoaded(f) ==
  LET texture == Len(textures) + 1
  IN /\ pendingUpload[f] > 0
     /\ Len(textures) < MaxTextures
     /\ pendingUpload' = [pendingUpload EXCEPT ![f] = @ - 1]
     /\ textures' = Append(textures,
          [session |-> 0, flipY |-> f, disposed |-> FALSE,
           image |-> FileImage, kind |-> "custom", dirty |-> TRUE])
     /\ textureRef' = texture
     /\ sessions' = ForEachBodyMesh(
          [i \in bodyMeshesRef.meshes |->
             [BodyMesh(i) EXCEPT !.material = ToolMaterial(texture, "custom")]])
     /\ UNCHANGED <<isOpen, folder, loading, loadingProgress, error, modelFormat,
                    rendererRef, bodyMeshesRef, meshRef>>
     /\ UNCHANGED <<design, textureFlipY, flatShading, wireframeMode, showUVDebug, solidColorDebug, toolClicks>>
     /\ UNCHANGED <<cvars, rvars, kvars, fvars>>

\* reapplyCanvasTexture: a new texture of the stage becomes textureRef.current
\* and the map of a new material on every receives-wrap mesh
ReapplyCanvasTexture ==
  LET texture == Len(textures) + 1
  IN /\ ToolClick
     /\ Len(textures) < MaxTextures
     /\ \E stage \in BOOLEAN :
          IF stage /\ rendererRef # 0
            THEN /\ textures' = Append(textures,
                      [session |-> 0, flipY |-> textureFlipY, disposed |-> FALSE,
                       image |-> design, kind |-> "canvas", dirty |-> TRUE])
                 /\ textureRef' = texture
                 /\ sessions' = ForEachBodyMesh(
                      [i \in bodyMeshesRef.meshes |->
                         [BodyMesh(i) EXCEPT !.material = ToolMaterial(texture, "canvas"),
                                             !.normals = TRUE]])
            ELSE UNCHANGED <<textures, textureRef, sessions>>
     /\ UNCHANGED <<isOpen, folder, loading, loadingProgress, error, modelFormat,
                    rendererRef, bodyMeshesRef, meshRef>>
     /\ UNCHANGED <<design, textureFlipY, flatShading, wireframeMode, showUVDebug, solidColorDebug, pendingUpload>>
     /\ UNCHANGED <<cvars, rvars, kvars, fvars>>

\* the UV Debug button: a new grid texture as the map of every receives-wrap
\* mesh with a standard material, or textureRef.current back as their map
ToggleUVDebug ==
  LET n == Cardinality(bodyMeshesRef.meshes)
      standard(i) == IsStandardMaterial(BodyMesh(i).material)
  IN /\ ToolClick
     /\ showUVDebug' = ~showUVDebug
     /\ IF ~showUVDebug
          THEN /\ Len(textures) + n <= MaxTextures
               /\ textures' = textures \o
                    [k \in 1..n |-> [session |-> 0, flipY |-> TRUE, disposed |-> FALSE,
                                     image |-> UvImage, kind |-> "uv", dirty |-> TRUE]]
               /\ sessions' = ForEachBodyMesh(
                    [i \in bodyMeshesRef.meshes |->
                       IF standard(i)
                         THEN [BodyMesh(i) EXCEPT !.material.map = Len(textures) + Rank(i),
                                                  !.material.needsUpdate = TRUE]
                         ELSE BodyMesh(i)])
          ELSE /\ textures' = textures
               /\ sessions' = ForEachBodyMesh(
                    [i \in bodyMeshesRef.meshes |->
                       IF standard(i)
                         THEN [BodyMesh(i) EXCEPT !.material.map = textureRef,
                                                  !.material.needsUpdate = TRUE]
                         ELSE BodyMesh(i)])
     /\ UNCHANGED <<isOpen, folder, loading, loadingProgress, error, modelFormat,
                    rendererRef, textureRef, bodyMeshesRef, meshRef>>
     /\ UNCHANGED <<design, textureFlipY, flatShading, wireframeMode, solidColorDebug, pendingUpload>>
     /\ UNCHANGED <<cvars, rvars, kvars, fvars>>

\* the Solid button: the map of every receives-wrap mesh with a standard
\* material removed and its colour red (a mesh tagged with a Fade name) or
\* green, or textureRef.current back as their map and their colour white
ToggleSolidColor ==
  LET standard(i) == IsStandardMaterial(BodyMesh(i).material)
      matName(i) == IF BodyMesh(i).tag = "untagged" THEN "" ELSE BodyMesh(i).tag
      solid(i) == IF Includes(matName(i), "Fade") THEN "ff0000" ELSE "00ff00"
  IN /\ ToolClick
     /\ solidColorDebug' = ~solidColorDebug
     /\ sessions' = ForEachBodyMesh(
          [i \in bodyMeshesRef.meshes |->
             IF standard(i)
               THEN [BodyMesh(i) EXCEPT
                       !.material.map = IF ~solidColorDebug THEN 0 ELSE textureRef,
                       !.material.color = IF ~solidColorDebug THEN solid(i) ELSE "ffffff",
                       !.material.needsUpdate = TRUE]
               ELSE BodyMesh(i)])
     /\ UNCHANGED <<isOpen, folder, loading, loadingProgress, error, modelFormat,
                    rendererRef, textureRef, bodyMeshesRef, meshRef, textures>>
     /\ UNCHANGED <<design, textureFlipY, flatShading, wireframeMode, showUVDebug, pendingUpload>>
     /\ UNCHANGED <<cvars, rvars, kvars, fvars>>

\* toggleFlatShading: the state flips, and with it the flat shading of the
\* material of every receives-wrap mesh that is a standard material
ToggleFlatShading ==
  LET standard(i) == IsStandardMaterial(BodyMesh(i).material)
  IN /\ ToolClick
     /\ flatShading' = ~flatShading
     /\ sessions' = ForEachBodyMesh(
          [i \in bodyMeshesRef.meshes |->
             IF standard(i)
               THEN [BodyMesh(i) EXCEPT !.material.flatShading = ~flatShading,
                                        !.material.needsUpdate = TRUE]
               ELSE BodyMesh(i)])
     /\ UNCHANGED <<isOpen, folder, loading, loadingProgress, error, modelFormat,
                    rendererRef, textureRef, bodyMeshesRef, meshRef, textures>>
     /\ UNCHANGED <<design, textureFlipY, wireframeMode, showUVDebug, solidColorDebug,
                    pendingUpload>>
     /\ UNCHANGED <<cvars, rvars, kvars, fvars>>

\* toggleWireframe: the state flips, and with it the wireframe of the
\* material of every receives-wrap mesh that is a standard material
ToggleWireframe ==
  LET standard(i) == IsStandardMaterial(BodyMesh(i).material)
  IN /\ ToolClick
     /\ wireframeMode' = ~wireframeMode
     /\ sessions' = ForEachBodyMesh(
          [i \in bodyMeshesRef.meshes |->
             IF standard(i)
               THEN [BodyMesh(i) EXCEPT !.material.wireframe = ~wireframeMode,
                                        !.material.needsUpdate = TRUE]
               ELSE BodyMesh(i)])
     /\ UNCHANGED <<isOpen, folder, loading, loadingProgress, error, modelFormat,
                    rendererRef, textureRef, bodyMeshesRef, meshRef, textures>>
     /\ UNCHANGED <<design, textureFlipY, flatShading, showUVDebug, solidColorDebug,
                    pendingUpload>>
     /\ UNCHANGED <<cvars, rvars, kvars, fvars>>

\* toggleFlipY: the state flips, and with it the flag of textureRef.current
ToggleFlipY ==
  /\ ToolClick
  /\ textureFlipY' = ~textureFlipY
  /\ textures' = IF textureRef # 0
       THEN [textures EXCEPT ![textureRef] = [@ EXCEPT !.flipY = ~textureFlipY, !.dirty = TRUE]]
       ELSE textures
  /\ UNCHANGED <<isOpen, folder, loading, loadingProgress, error, modelFormat,
                 rendererRef, textureRef, bodyMeshesRef, meshRef, sessions>>
  /\ UNCHANGED <<design, flatShading, wireframeMode, showUVDebug, solidColorDebug,
                 pendingUpload>>
  /\ UNCHANGED <<cvars, rvars, kvars, fvars>>

NextDesign ==
  \/ OpenViewportUpTo(MaxDesignLoads)
  \/ CloseViewport
  \/ \E s \in DOMAIN sessions : PrimaryLoaded(s)
  \/ \E s \in DOMAIN sessions : LoadingTimer(s)
  \/ DesignEdit
  \/ ClearTextures
  \/ StartCustomTextureUpload
  \/ \E f \in BOOLEAN : CustomTextureLoaded(f)
  \/ ReapplyCanvasTexture
  \/ ToggleUVDebug
  \/ ToggleSolidColor
  \/ ToggleFlipY
  \/ ToggleFlatShading
  \/ ToggleWireframe

\* the operations that make or change the wrap texture: load, design edit,
\* toggleFlipY, reapplyCanvasTexture, custom texture upload; with them
\* clearTextures, toggleFlatShading and toggleWireframe, which change the
\* materials the texture is bound to
NextFlip ==
  \/ OpenViewportUpTo(MaxDesignLoads)
  \/ CloseViewport
  \/ \E s \in DOMAIN sessions : PrimaryLoaded(s)
  \/ \E s \in DOMAIN sessions : LoadingTimer(s)
  \/ DesignEdit
  \/ StartCustomTextureUpload
  \/ \E f \in BOOLEAN : CustomTextureLoaded(f)
  \/ ReapplyCanvasTexture
  \/ ToggleFlipY
  \/ ToggleFlatShading
  \/ ToggleWireframe
  \/ ClearTextures

(***************************************************************************)
(* The pack cache: getCachedPack, cachePack, downloadPack                  *)
(***************************************************************************)
\* bound of the model: calls of downloadPack
MaxCalls == 2

\* a Blob is named by the call whose fetch produced it; 0 is null
NoBlob == 0

\* what the onsuccess handler of store.get resolves getCachedPack with
GetCachedPackResultAnyVersion(cached, version) ==
  IF cached.present THEN cached.data ELSE NoBlob

GetCachedPackResultNever(cached, version) == NoBlob

GetCachedPackResult(cached, version) ==
  IF cached.present /\ cached.version = version THEN cached.data ELSE NoBlob

\* how a cache read can end: the get request succeeds; openDB rejects or
\* db.transaction throws (caught: null); the get request fails (its promise,
\* returned without await, rejects)
ReadOutcomes == {"ok", "failed", "error"}

\* how the fetch can end: a response that is ok and whose body arrives; a
\* response that is not ok; a rejected fetch or body
Responses == {"ok", "notOk", "error"}

\* how cachePack's write can end: the put succeeds; openDB, db.transaction or
\* the put fail
WriteOutcomes == {"stored", "failed"}

\* downloadPack(url, version) up to the pending cache read
StartDownload(url, version) ==
  /\ Len(kCalls) < MaxCalls
  /\ kCalls' = Append(kCalls,
       [url |-> url, version |-> version, pc |-> "reading",
        cachedAtStart |-> (kStore[url].present /\ kStore[url].version = version),
        readOutcome |-> "none", response |-> "none", fetches |-> 0,
        result |-> NoBlob, fromCache |-> FALSE,
        write |-> "none", cachePack |-> "none"])
  /\ UNCHANGED kStore
  /\ UNCHANGED <<cvars, rvars, vvars, dvars, fvars>>

\* the cache read of call c ends: downloadPack returns the cached data,
\* or goes on to fetch, or rejects with the get request's error
ReadDone(c) ==
  /\ kCalls[c].pc = "reading"
  /\ \E outcome \in ReadOutcomes :
       LET cached == IF outcome = "ok"
                       THEN GetCachedPackResult(kStore[kCalls[c].url], kCalls[c].version)
                       ELSE NoBlob
       IN kCalls' = [kCalls EXCEPT ![c] =
            IF outcome = "error"
              THEN [@ EXCEPT !.readOutcome = outcome, !.pc = "rejected"]
              ELSE IF cached # NoBlob
                THEN [@ EXCEPT !.readOutcome = outcome, !.pc = "resolved",
                               !.result = cached, !.fromCache = TRUE]
                ELSE [@ EXCEPT !.readOutcome = outcome, !.pc = "fetching", !.fetches = @ + 1]]
  /\ UNCHANGED kStore
  /\ UNCHANGED <<cvars, rvars, vvars, dvars, fvars>>

\* the fetch with the response's ok flag not tested: any response that
\* arrived is returned and cached
FetchDoneOkUntested(c) ==
  /\ kCalls[c].pc = "fetching"
  /\ \E response \in Responses :
       kCalls' = [kCalls EXCEPT ![c] =
         IF response \in {"ok", "notOk"}
           THEN [@ EXCEPT !.response = response, !.pc = "resolved", !.result = c,
                          !.write = "pending", !.cachePack = "pending"]
           ELSE [@ EXCEPT !.response = response, !.pc = "rejected"]]
  /\ UNCHANGED kStore
  /\ UNCHANGED <<cvars, rvars, vvars, dvars, fvars>>

\* the fetch of call c ends: with the body of an ok response downloadPack
\* starts cachePack and returns the blob; it rejects otherwise
FetchDone(c) ==
  /\ kCalls[c].pc = "fetching"
  /\ \E response \in Responses :
       kCalls' = [kCalls EXCEPT ![c] =
         IF response = "ok"
           THEN [@ EXCEPT !.response = response, !.pc = "resolved", !.result = c,
                          !.write = "pending", !.cachePack = "pending"]
           ELSE [@ EXCEPT !.response = response, !.pc = "rejected"]]
  /\ UNCHANGED kStore
  /\ UNCHANGED <<cvars, rvars, vvars, dvars, fvars>>

WriteDoneAwaited(c) ==
  /\ kCalls[c].write = "pending"
  /\ \E outcome \in WriteOutcomes :
       /\ kCalls' = [kCalls EXCEPT ![c] =
            [@ EXCEPT !.write = outcome,
                      !.cachePack = IF outcome = "stored" THEN "resolved" ELSE "rejected",
                      !.pc = IF outcome = "stored" THEN @ ELSE "rejected"]]
       /\ kStore' = IF outcome = "stored"
            THEN [kStore EXCEPT ![kCalls[c].url] =
                   [present |-> TRUE, version |-> kCalls[c].version, data |-> kCalls[c].result]]
            ELSE kStore
  /\ UNCHANGED <<cvars, rvars, vvars, dvars, fvars>>

\* cachePack of call c ends: the entry is put under the url, or the failure
\* is caught; its promise resolves either way
WriteDone(c) ==
  /\ kCalls[c].write = "pending"
  /\ \E outcome \in WriteOutcomes :
       /\ kCalls' = [kCalls EXCEPT ![c] =
            [@ EXCEPT !.write = outcome, !.cachePack = "resolved"]]
       /\ kStore' = IF outcome = "stored"
            THEN [kStore EXCEPT ![kCalls[c].url] =
                   [present |-> TRUE, version |-> kCalls[c].version, data |-> kCalls[c].result]]
            ELSE kStore
  /\ UNCHANGED <<cvars, rvars, vvars, dvars, fvars>>

InitCache ==
  /\ KIdle
  /\ CIdle
  /\ RIdle
  /\ VIdle

NextCache ==
  \/ \E url \in Urls, version \in Versions : StartDownload(url, version)
  \/ \E c \in DOMAIN kCalls : ReadDone(c)
  \/ \E c \in DOMAIN kCalls : FetchDone(c)
  \/ \E c \in DOMAIN kCalls : WriteDone(c)

(***************************************************************************)
(* Specification of the classifier: a parsed scene graph, then             *)
(* applyWrapTexture run on it                                              *)
(***************************************************************************)
InitClassify ==
  /\ \E c \in InputCases, flat \in BOOLEAN, ownMap \in {0, OwnMap}, color \in LoadedColors :
       /\ cInput = <<LoadedMesh(AssignedMaterial(
                       LoadedMaterial(c[1], c[2], c[3], c[4], c[5], c[6], c[7]),
                       flat, ownMap, color))>>
       /\ cMaterials = <<[name |-> c[1]]>>
  /\ cGraph = cInput
  /\ cBody = {}
  /\ cPass = 0
  /\ RIdle
  /\ VIdle
  /\ KIdle

\* applyWrapTexture(object, gltfMaterials) on the graph as it now stands:
\* nothing without the stage; else a new texture of the stage becomes
\* textureRef.current and the map of every mesh the pass wraps
ApplyWrapTexture ==
  LET texture == Len(textures) + 1
  IN /\ cPass < MaxPasses
     /\ \E stage \in BOOLEAN :
          IF stage
            THEN /\ textures' = Append(textures,
                      [session |-> 0, flipY |-> FALSE, disposed |-> FALSE,
                       image |-> design, kind |-> "canvas", dirty |-> TRUE])
                 /\ textureRef' = texture
                 /\ cBody' = MeshesToUpdate(cGraph, cMaterials)
                 /\ cGraph' = GraphAfterWrap(cGraph, cMaterials, texture)
                 /\ cPass' = cPass + 1
            ELSE UNCHANGED <<textures, textureRef, cBody, cGraph, cPass>>
     /\ UNCHANGED <<cInput, cMaterials>>
     /\ UNCHANGED <<isOpen, folder, loading, loadingProgress, error, modelFormat,
                    rendererRef, bodyMeshesRef, meshRef, sessions>>
     /\ UNCHANGED <<rvars, dvars, kvars, fvars>>

NextClassify == ApplyWrapTexture

(***************************************************************************)
(* Specification of the resolver: a glob table and a folder name, then     *)
(* getGltfUrl called on them                                               *)
(***************************************************************************)
InitResolver ==
  /\ rModules \in GlobTables
  /\ rFolder \in Folders
  /\ rResult = NoUrl
  /\ rPc = "idle"
  /\ CIdle
  /\ VIdle
  /\ KIdle

CallGetGltfUrl ==
  /\ rPc = "idle"
  /\ rResult' = GetGltfUrl(rModules, rFolder)
  /\ rPc' = "done"
  /\ UNCHANGED <<rModules, rFolder>>
  /\ UNCHANGED <<cvars, vvars, dvars, kvars, fvars>>

NextResolver == CallGetGltfUrl

vars == <<cvars, rvars, vvars, dvars, kvars, fvars>>

SpecClassify == InitClassify /\ [][NextClassify]_vars
SpecResolver == InitResolver /\ [][NextResolver]_vars
Spec == InitViewer /\ [][NextViewer]_vars
SpecLoad == InitViewer /\ [][NextLoad]_vars
SpecLive ==
  /\ InitViewer
  /\ [][NextLive]_vars
  /\ \A s \in 1..MaxLiveLoads : WF_vars(Completion(s))
SpecDesign == InitViewer /\ [][NextDesign]_vars
SpecCache == InitCache /\ [][NextCache]_vars
SpecFlip == InitViewer /\ [][NextFlip]_vars
SpecFrames == InitViewer /\ [][NextFrames]_vars

(***************************************************************************)
(* Properties of the classifier                                            *)
(***************************************************************************)
\* the material of mesh i as the parser returned it, and the name resolved for it
InMat(i) == cInput[i].material
InName(i) == ResolvedName(cInput[i].material, cMaterials)

\* the rules as the specification words them
ExclusionTokens ==
  {"Glass", "Interior", "Lights", "Leather", "Plastic", "Chrome", "Aluminum",
   "Rubber", "Carpet", "Seatbelts", "Grille", "Chargeport", "Plates", "Ground",
   "Mirror", "Suede", "Decor", "Screen", "Zero_Black", "Frunk"}
HasExclusionToken(n) == \E t \in ExclusionTokens : Includes(n, t)
GlassRule(m, n) == Includes(n, "Glass") \/ (m.transparent /\ m.opacity < 50)
FadeRule(n) == (Includes(n, "ExteriorFade") \/ Includes(n, "PaintFade")) /\ ~HasExclusionToken(n)
PaintRule(n) == (Includes(n, "Paint") \/ Includes(n, "Exterior")) /\ ~HasExclusionToken(n)
StandardKind(m) == m.kind \in {"standard", "physical"}

\* C1: a mesh whose resolved name contains "Glass", or whose material is
\* transparent with opacity below 0.5, retains its original material after
\* the classification pass, whatever its other markers and numbers.
C1_GlassRetainsOriginal ==
  cPass = 1 =>
    \A i \in DOMAIN cInput : GlassRule(InMat(i), InName(i)) => i \notin cBody

\* a transparent, half-invisible fade-paint mesh with paint-like numbers was retained
C1_Witness ==
  /\ cPass = 1
  /\ \E i \in DOMAIN cInput :
       /\ InName(i) = "PaintFade" /\ InMat(i).transparent /\ InMat(i).opacity = 49
       /\ InMat(i).metalness = 31 /\ InMat(i).roughness = 79
       /\ i \notin cBody

\* C2 as stated: a mesh whose resolved name contains "ExteriorFade" or
\* "PaintFade" and no exclusion token receives the wrap, for every
\* transparency flag and every opacity.
C2_FadeAlwaysWrapped ==
  cPass = 1 =>
    \A i \in DOMAIN cInput : FadeRule(InName(i)) => i \in cBody

\* C2 amended: a mesh with a standard or physical material whose resolved
\* name contains "ExteriorFade" or "PaintFade" and no exclusion token
\* receives the wrap unless the glass rule catches it (transparent with
\* opacity below 0.5); a transparent one of opacity 0.5 or more is wrapped.
C2_FadeWrappedUnlessGlass ==
  cPass = 1 =>
    \A i \in DOMAIN cInput :
      (StandardKind(InMat(i)) /\ FadeRule(InName(i)) /\ ~GlassRule(InMat(i), InName(i)))
        => i \in cBody

\* a transparent fade mesh of opacity 0.5 was wrapped
C2_Witness ==
  /\ cPass = 1
  /\ \E i \in DOMAIN cInput :
       /\ InName(i) = "ExteriorFade" /\ InMat(i).transparent /\ InMat(i).opacity = 50
       /\ i \in cBody

\* C3 as stated: a mesh not caught by the glass rule whose resolved name
\* contains "Paint" or "Exterior" receives the wrap if the name has no
\* exclusion token and retains its material if it has one.
C3_PaintWrappedUnlessExcluded ==
  cPass = 1 =>
    \A i \in DOMAIN cInput :
      (~GlassRule(InMat(i), InName(i))
         /\ (Includes(InName(i), "Paint") \/ Includes(InName(i), "Exterior")))
        => (i \in cBody <=> ~HasExclusionToken(InName(i)))

\* C3 amended: the same for a mesh whose material is a standard or physical
\* material; a mesh with any other kind of material retains it.
C3_StandardPaintWrappedUnlessExcluded ==
  cPass = 1 =>
    \A i \in DOMAIN cInput :
      (~GlassRule(InMat(i), InName(i))
         /\ (Includes(InName(i), "Paint") \/ Includes(InName(i), "Exterior")))
        => (i \in cBody <=> (StandardKind(InMat(i)) /\ ~HasExclusionToken(InName(i))))

\* "Body_Paint" was wrapped, or "Frunk_Paint" (an exclusion token) was retained
C3_Witness ==
  /\ cPass = 1
  /\ \E i \in DOMAIN cInput :
       /\ StandardKind(InMat(i)) /\ ~InMat(i).transparent
       /\ \/ InName(i) = "Body_Paint" /\ i \in cBody
          \/ InName(i) = "Frunk_Paint" /\ i \notin cBody

\* C4: a mesh whose resolved name is empty or "unnamed" receives the wrap
\* exactly when (not transparent or opacity >= 0.9) and metalness > 0.3 and
\* roughness < 0.8; metalness 0.3 and roughness 0.8 retain, opacity 0.9 is opaque.
C4_UnnamedHeuristic ==
  cPass = 1 =>
    \A i \in DOMAIN cInput :
      InName(i) \in {"", "unnamed"} =>
        (i \in cBody <=>
           /\ ~InMat(i).transparent \/ InMat(i).opacity >= 90
           /\ InMat(i).metalness # Undef /\ InMat(i).metalness > 30
           /\ InMat(i).roughness # Undef /\ InMat(i).roughness < 80)

\* an unnamed transparent mesh of opacity 0.9, metalness 0.31, roughness 0.79 was wrapped
C4_Witness ==
  /\ cPass = 1
  /\ \E i \in DOMAIN cInput :
       /\ InName(i) = "unnamed" /\ InMat(i).transparent /\ InMat(i).opacity = 90
       /\ InMat(i).metalness = 31 /\ InMat(i).roughness = 79
       /\ i \in cBody

\* C5: a mesh with a resolved name other than "" and "unnamed" that matches
\* none of the glass, fade-paint and paint/exterior rules retains its
\* material, whatever its metalness, roughness and opacity.
C5_NamedUnmatchedRetains ==
  cPass = 1 =>
    \A i \in DOMAIN cInput :
      (InName(i) \notin {"", "unnamed"}
         /\ ~GlassRule(InMat(i), InName(i)) /\ ~FadeRule(InName(i)) /\ ~PaintRule(InName(i)))
        => i \notin cBody

\* "Wheel", opaque with paint-like metalness and roughness, was retained
C5_Witness ==
  /\ cPass = 1
  /\ \E i \in DOMAIN cInput :
       /\ InName(i) = "Wheel" /\ StandardKind(InMat(i)) /\ ~InMat(i).transparent
       /\ InMat(i).metalness = 31 /\ InMat(i).roughness = 79
       /\ i \notin cBody

\* C6: a second applyWrapTexture pass on the same graph, with nothing in
\* between, yields the same set of receives-wrap meshes as the first.
C6_ClassifyIdempotent ==
  [][(cPass = 1 /\ cPass' = 2) => cBody' = cBody]_vars

(***************************************************************************)
(* Properties of the resolver                                              *)
(***************************************************************************)
\* some glob entry lies in the folder's 3D directory
Registered(modules, folderName) ==
  \E k \in DOMAIN modules : PathIncludesFolder(modules[k].path, folderName)

\* C10: getGltfUrl returns null whenever no GLTF file is registered for the
\* folder in the glob table.
C10_NullWhenUnregistered ==
  (rPc = "done" /\ ~Registered(rModules, rFolder)) => rResult = NoUrl

(***************************************************************************)
(* Properties of the viewport sessions                                     *)
(***************************************************************************)
\* C7: once the viewport is closed, no callback of a load that was in flight
\* changes loadingProgress, loading, error, modelFormat, textureRef,
\* bodyMeshesRef or meshRef: they stay as the teardown left them.
C7_NoMutationAfterTeardown ==
  [][(~isOpen /\ ~isOpen') =>
       UNCHANGED <<loadingProgress, loading, error, modelFormat,
                   textureRef, bodyMeshesRef, meshRef>>]_vars

\* the GPU resources created and not released: renderers, textures, and the
\* geometry and materials of loaded models (no statement of the viewer
\* releases a model)
LiveGpu ==
  {<<"renderer", s>> : s \in {x \in DOMAIN sessions : ~sessions[x].rendererDisposed}}
  \cup {<<"texture", t>> : t \in {x \in DOMAIN textures : ~textures[x].disposed}}
  \cup {<<"model", s>> : s \in {x \in DOMAIN sessions : sessions[x].graph # <<>>}}

\* C8: while the viewport is closed, every GPU resource created in the
\* sessions so far has been released: renderer, textures, model geometry
\* and materials.
C8_AllGpuReleasedOnClose ==
  ~isOpen => LiveGpu = {}

\* C9: within one load the percentages reported through setLoadingProgress
\* never decrease and lie in 0..100 (stated for the first load, while it is
\* the only one started: every change of loadingProgress is then a report of it).
C9_ProgressMonotonic ==
  [][(Len(sessions) = 1 /\ Len(sessions') = 1) =>
       (loadingProgress' >= loadingProgress /\ loadingProgress' \in 0..100)]_vars

(***************************************************************************)
(* Scene loads: termination, the fallback path, the order of strategies    *)
(***************************************************************************)
Succeeded(s) == sessions[s].pc \in {"timer", "done"}
Terminated(s) == sessions[s].pc \in {"done", "failed"}

\* the viewer state of a successful load and of a terminal error, as the
\* overlay reads them
SuccessState ==
  /\ loadingProgress = 100
  /\ error = NoError
  /\ ~loading
  /\ \E s \in DOMAIN sessions : sessions[s].pc = "done" /\ sessions[s].inScene

ErrorState == error # NoError /\ ~loading

\* C13: every load terminates.  With every pending fetch, parse and timer
\* eventually completing, each started load reaches success or the error
\* state; a load alone in the viewer leaves it in the success state
\* (progress 100, model in the scene, error null, loading false) or in the
\* error state (message set, loading false); the step that ends a load in
\* failure sets the message and clears loading.
C13_EveryLoadTerminates ==
  /\ \A s \in 1..MaxLiveLoads :
       (s \in DOMAIN sessions) ~> (s \in DOMAIN sessions /\ Terminated(s))
  /\ (Len(sessions) = 1) ~> (Len(sessions) > 1 \/ SuccessState \/ ErrorState)
  /\ [][\A s \in DOMAIN sessions :
          (sessions[s].pc # "failed" /\ sessions'[s].pc = "failed")
            => (error' # NoError /\ ~loading')]_vars

\* a load whose three fetches all failed has ended in the error state
C13_Witness ==
  \E s \in DOMAIN sessions :
    /\ sessions[s].pc = "failed"
    /\ sessions[s].loads = 3
    /\ ~sessions[s].fetched
    /\ ErrorState

\* the receives-wrap meshes of the model of load s, and its scene graph
\* without the identity of the texture object bound
WrapSet(s) ==
  {i \in DOMAIN sessions[s].graph : sessions[s].graph[i].material.made = "wrap"}

HasTexture(s) == \E t \in DOMAIN textures : textures[t].session = s

GraphShape(s) ==
  [i \in DOMAIN sessions[s].graph |->
     [sessions[s].graph[i] EXCEPT !.material.map = IF @ = 0 THEN 0 ELSE 1]]

SamePair(a, b) ==
  /\ Succeeded(a) /\ sessions[a].via = "primary"
  /\ Succeeded(b) /\ sessions[b].via = "fallback"
  /\ sessions[a].folder = sessions[b].folder
  /\ HasTexture(a) = HasTexture(b)

\* C17: a load that succeeds through the fallback ends as a load of the same
\* document that succeeds through the primary path: same receives-wrap set,
\* same scene graph, same material array on the root, model in the scene;
\* either success sets progress 100 and modelFormat "gltf", and its timer
\* clears loading.
C17_FallbackEquivalent ==
  /\ [](\A a, b \in DOMAIN sessions :
         SamePair(a, b) =>
           /\ WrapSet(a) = WrapSet(b)
           /\ GraphShape(a) = GraphShape(b)
           /\ sessions[a].rootMaterials = sessions[b].rootMaterials
           /\ sessions[a].inScene /\ sessions[b].inScene)
  /\ [][\A s \in DOMAIN sessions :
          /\ (sessions[s].pc \in {"primary", "parse"} /\ sessions'[s].pc = "timer")
               => (loadingProgress' = 100 /\ modelFormat' = "gltf")
          /\ (sessions[s].pc = "timer" /\ sessions'[s].pc = "done") => ~loading']_vars

C17_Witness ==
  \E a, b \in DOMAIN sessions :
    /\ SamePair(a, b)
    /\ HasTexture(a)
    /\ WrapSet(b) # {}
    /\ sessions[b].rootMaterials # <<>>

\* the change of load s in a step is one of the moves of the strategy list
StrategyMove(a, b) ==
  \/ a.pc = "primary" /\ b.pc = "timer" /\ b.loads = a.loads
  \/ /\ a.pc = "primary" /\ b.pc = "fetch"
     /\ StartsWithSrc(a.url) /\ b.loads = 2 /\ b.loadUrl = a.url
  \/ a.pc = "primary" /\ b.pc = "failed" /\ ~StartsWithSrc(a.url) /\ b.loads = 1
  \/ a.pc = "fetch" /\ b.pc = "parse" /\ b.loads = a.loads /\ b.loadUrl = a.loadUrl
  \/ /\ a.pc \in {"fetch", "parse"} /\ a.loads = 2
     /\ b.pc = "fetch" /\ b.loads = 3 /\ b.loadUrl = StripSrc(a.url)
  \/ a.pc \in {"fetch", "parse"} /\ a.loads = 3 /\ b.pc = "failed" /\ b.loads = 3
  \/ a.pc = "parse" /\ b.pc = "timer" /\ b.loads = a.loads
  \/ a.pc = "timer" /\ b.pc = "done" /\ b.loads = a.loads

\* C18: the strategies run in sequence: the primary load; for a URL under
\* /src/ only, the fetch of the original URL after the primary failed; the
\* fetch of the URL without /src after that failed; then the error.  A load
\* issues at most three fetches, none after a success, and a URL outside
\* /src/ goes from a primary failure to the error state.
C18_StrategiesInSequence ==
  /\ [](\A s \in DOMAIN sessions :
         /\ sessions[s].loads <= 3
         /\ sessions[s].pc = "primary" => (sessions[s].loads = 1 /\ sessions[s].loadUrl = sessions[s].url)
         /\ ~StartsWithSrc(sessions[s].url) => sessions[s].pc \notin {"fetch", "parse"})
  /\ [][\A s \in DOMAIN sessions :
          (sessions'[s].pc # sessions[s].pc \/ sessions'[s].loads # sessions[s].loads
             \/ sessions'[s].loadUrl # sessions[s].loadUrl)
            => StrategyMove(sessions[s], sessions'[s])]_vars

C18_Witness ==
  /\ \E s \in DOMAIN sessions :
       /\ sessions[s].pc = "failed" /\ sessions[s].loads = 3
       /\ sessions[s].loadUrl = StripSrc(sessions[s].url)
       /\ sessions[s].loadUrl # sessions[s].url
  /\ \E s \in DOMAIN sessions :
       sessions[s].pc = "failed" /\ ~StartsWithSrc(sessions[s].url)

\* a load that ended in the error state without any fetch delivering a response
EveryFetchFailed(s) == sessions[s].pc = "failed" /\ ~sessions[s].fetched

\* C19 as stated: a load in which every fetch fails makes exactly one retry
\* after its first fetch (two fetches in all) before the error state.
C19_ExactlyOneRetry ==
  \A s \in DOMAIN sessions : EveryFetchFailed(s) => sessions[s].loads = 2

\* C19: a load in which every fetch fails makes two retries for a URL under
\* /src/ (the original URL again, then the URL without /src) and no retry
\* for any other URL, before the error state.
C19_RetriesByPrefix ==
  \A s \in DOMAIN sessions :
    EveryFetchFailed(s) =>
      sessions[s].loads = (IF StartsWithSrc(sessions[s].url) THEN 3 ELSE 1)

C19_Witness ==
  \E s \in DOMAIN sessions :
    EveryFetchFailed(s) /\ StartsWithSrc(sessions[s].url) /\ sessions[s].loads = 3

\* C20: a parse failure is surfaced without retry: the step in which the
\* scene parser reports an error puts the load in the error state and starts
\* no further fetch.
C20_ParseFailureNotRetried ==
  [][\A s \in DOMAIN sessions :
       (sessions[s].pc = "parse" /\ sessions'[s].pc \notin {"parse", "timer"})
         => (sessions'[s].pc = "failed" /\ sessions'[s].loads = sessions[s].loads)]_vars

(***************************************************************************)
(* Design edits and the debug tools                                        *)
(***************************************************************************)
\* the colour map of receives-wrap mesh i
BodyMap(i) == sessions[bodyMeshesRef.owner].graph[i].material.map

\* C11: a design edit while the viewport is open changes at most the image
\* and the dirty flag of the texture textureRef.current is (the image becomes
\* the rasterization of the new design; nothing changes when the stage is not
\* mounted): no texture object is created, no other texture changes,
\* bodyMeshesRef, every mesh and material of every session, textureRef and
\* the load state stay as they were.
C11_DesignEditFrame ==
  [][(design' # design /\ isOpen) =>
       /\ Len(textures') = Len(textures)
       /\ \A t \in DOMAIN textures :
            \/ textures'[t] = textures[t]
            \/ /\ t = textureRef
               /\ textures'[t] = [textures[t] EXCEPT !.image = design', !.dirty = TRUE]
       /\ UNCHANGED <<textureRef, bodyMeshesRef, sessions, meshRef, rendererRef,
                      loading, loadingProgress, error, modelFormat>>]_vars

\* an uploaded texture whose image a design edit has replaced
C11_Witness ==
  /\ isOpen
  /\ design >= 1
  /\ textureRef # 0
  /\ textures[textureRef].kind = "custom"
  /\ textures[textureRef].image = design

\* C12 as stated: after a design edit with the viewport open, the colour map
\* of every receives-wrap mesh is a texture whose image is the latest design,
\* whatever viewer operations and debug tools ran before.
C12_EditReflectedOnEveryMesh ==
  [][(design' # design /\ isOpen') =>
       \A i \in bodyMeshesRef'.meshes :
         LET map == sessions'[bodyMeshesRef'.owner].graph[i].material.map
         IN map # 0 /\ textures'[map].image = design']_vars

\* C12: after a design edit with the viewport open, every receives-wrap mesh
\* whose colour map a debug tool has not detached (removed by clear textures
\* or the solid-colour test, replaced by the grid of UV debug) has the current
\* wrap texture as its map, and that texture's image is the latest design,
\* unless the stage was not mounted at the edit, and then the edit changed no
\* texture.
C12_EditReflectedUnlessDetached ==
  [][(design' # design /\ isOpen') =>
       \A i \in bodyMeshesRef'.meshes :
         LET map == sessions'[bodyMeshesRef'.owner].graph[i].material.map
         IN (map # 0 /\ textures'[map].kind # "uv")
              => /\ map = textureRef'
                 /\ (textures'[map].image = design' \/ textures' = textures)]_vars

\* a loaded model carrying an uploaded texture, after a design edit
C12_Witness ==
  /\ isOpen
  /\ design >= 1
  /\ bodyMeshesRef.meshes # {}
  /\ \A i \in bodyMeshesRef.meshes :
       /\ BodyMap(i) = textureRef
       /\ sessions[bodyMeshesRef.owner].graph[i].material.made = "custom"
  /\ textures[textureRef].image = design

(***************************************************************************)
(* Properties of the pack cache                                            *)
(***************************************************************************)
ServedFromCache(c) == kCalls[c].pc = "resolved" /\ kCalls[c].fromCache

\* the step in which the cache read of call c ends
ReadEnds(c) == kCalls[c].pc = "reading" /\ kCalls'[c].pc # "reading"

\* C14: the cache never serves data stored under another version: the blob a
\* call is served from the cache was fetched and stored by a call for the
\* same url with the same version; a read that finds an entry of another
\* version is a miss, and downloadPack goes on to the network fetch.
C14_NoCrossVersionServe ==
  /\ [](\A c \in DOMAIN kCalls :
         ServedFromCache(c) =>
           /\ kCalls[c].result \in DOMAIN kCalls
           /\ kCalls[kCalls[c].result].url = kCalls[c].url
           /\ kCalls[kCalls[c].result].version = kCalls[c].version
           /\ kCalls[c].fetches = 0)
  /\ [][\A c \in DOMAIN kCalls :
          (/\ ReadEnds(c)
           /\ kCalls'[c].readOutcome = "ok"
           /\ kStore[kCalls[c].url].present
           /\ kStore[kCalls[c].url].version # kCalls[c].version)
            => (kCalls'[c].pc = "fetching" /\ kCalls'[c].fetches = 1)]_vars

\* a call that found the entry of another version under its url and went on
\* to fetch
C14_Witness ==
  \E c \in DOMAIN kCalls :
    /\ kCalls[c].pc = "fetching"
    /\ kCalls[c].readOutcome = "ok"
    /\ ~kCalls[c].cachedAtStart
    /\ kStore[kCalls[c].url].present
    /\ kStore[kCalls[c].url].version # kCalls[c].version

\* C15: cache writes are best-effort: a call whose fetch succeeded has
\* resolved with the blob it fetched, while its write is pending, after the
\* write stored the entry and after the write failed; cachePack's promise is
\* pending or resolved, never rejected.
C15_WriteBestEffort ==
  \A c \in DOMAIN kCalls :
    /\ kCalls[c].response = "ok" =>
         /\ kCalls[c].pc = "resolved"
         /\ kCalls[c].result = c
         /\ ~kCalls[c].fromCache
         /\ kCalls[c].write \in {"pending", "stored", "failed"}
    /\ kCalls[c].cachePack # "rejected"
    /\ kCalls[c].write \in {"stored", "failed"} => kCalls[c].cachePack = "resolved"

\* a call that resolved with its blob and whose write failed
C15_Witness ==
  \E c \in DOMAIN kCalls :
    /\ kCalls[c].response = "ok"
    /\ kCalls[c].write = "failed"
    /\ kCalls[c].pc = "resolved"
    /\ kCalls[c].result = c

\* C16 as stated: a call of downloadPack(url, v) made when the entry of url
\* stored with version v is in the cache, and whose read ends while that
\* entry is still there, returns the stored data without a fetch.
C16_NoRefetchOnceCached ==
  [][\A c \in DOMAIN kCalls :
       (/\ ReadEnds(c)
        /\ kCalls[c].cachedAtStart
        /\ kStore[kCalls[c].url].version = kCalls[c].version)
         => (/\ kCalls'[c].pc = "resolved"
             /\ kCalls'[c].result = kStore[kCalls[c].url].data
             /\ kCalls'[c].fetches = 0)]_vars

\* C16: the same for a call whose cache read succeeds (a read that fails is
\* a miss or a rejection, not a hit).
C16_NoRefetchWhenReadSucceeds ==
  [][\A c \in DOMAIN kCalls :
       (/\ ReadEnds(c)
        /\ kCalls'[c].readOutcome = "ok"
        /\ kCalls[c].cachedAtStart
        /\ kStore[kCalls[c].url].version = kCalls[c].version)
         => (/\ kCalls'[c].pc = "resolved"
             /\ kCalls'[c].result = kStore[kCalls[c].url].data
             /\ kCalls'[c].fetches = 0)]_vars

\* a call made after the write of an earlier call stored the entry, served
\* that call's blob without a fetch
C16_Witness ==
  \E c, d \in DOMAIN kCalls :
    /\ d < c
    /\ kCalls[d].write = "stored"
    /\ kCalls[c].cachedAtStart
    /\ ServedFromCache(c)
    /\ kCalls[c].result = d
    /\ kCalls[c].fetches = 0

(***************************************************************************)
(* Properties of the classifier: shading, tagging and the replacement      *)
(* material                                                                *)
(***************************************************************************)
\* the name contains "Fade": the test the binder uses for the blend variant
FadeVariant(n) == Includes(n, "Fade")

\* C21: after the classification pass every mesh, whatever its
\* branch and whatever kind of material it carries, has had its normals
\* recomputed and its material's flat-shading disabled.
C21_EveryMeshSmoothed ==
  cPass = 1 =>
    \A i \in DOMAIN cGraph : cGraph[i].normals /\ ~cGraph[i].material.flatShading

\* C22 as stated: after the classification pass every processed mesh,
\* receives-wrap and retain-original alike, is tagged with its resolved
\* material name.
C22_EveryMeshTagged ==
  cPass = 1 =>
    \A i \in DOMAIN cGraph : cGraph[i].tag = InName(i)

\* C22 amended: after the classification pass every receives-wrap mesh is
\* tagged with its resolved material name, and a retain-original mesh
\* carries no tag: its userData is as it was loaded.
C22_WrapMeshTagged ==
  cPass = 1 =>
    \A i \in DOMAIN cGraph :
      IF i \in cBody
        THEN cGraph[i].tag = InName(i)
        ELSE cGraph[i].tag = cInput[i].tag

\* a wrapped mesh whose name came from the document's material array
\* carries that name as its tag
C22_Witness ==
  /\ cPass = 1
  /\ \E i \in DOMAIN cGraph :
       /\ i \in cBody
       /\ InMat(i).name = "" /\ InMat(i).gltfIndex # Undef
       /\ cGraph[i].tag = "ExteriorFade"

\* C23: the replacement material of a receives-wrap mesh is transparent
\* only if the resolved name contains "Fade"; a receives-wrap mesh whose
\* name does not contain it gets transparent = false and opacity 1.0,
\* whatever the transparency and opacity of its original material.
C23_TransparencyOnlyForFade ==
  cPass = 1 =>
    \A i \in cBody :
      /\ cGraph[i].material.transparent => FadeVariant(InName(i))
      /\ ~FadeVariant(InName(i)) =>
           ~cGraph[i].material.transparent /\ cGraph[i].material.opacity = 100

\* a transparent paint mesh of opacity 0.5 got an opaque replacement, or a
\* transparent fade mesh kept its transparency and opacity
C23_Witness ==
  /\ cPass = 1
  /\ \E i \in cBody :
       \/ /\ InName(i) = "Body_Paint" /\ InMat(i).transparent /\ InMat(i).opacity = 50
          /\ ~cGraph[i].material.transparent /\ cGraph[i].material.opacity = 100
       \/ /\ InName(i) = "PaintFade" /\ InMat(i).transparent /\ InMat(i).opacity = 89
          /\ cGraph[i].material.transparent /\ cGraph[i].material.opacity = 89

\* C24 as stated: the replacement material of a receives-wrap mesh has
\* depth-write enabled if and only if the resolved name indicates a "Fade"
\* variant.
C24_DepthWriteOnlyForFade ==
  cPass = 1 =>
    \A i \in cBody : cGraph[i].material.depthWrite <=> FadeVariant(InName(i))

\* C24 amended: the replacement material of a receives-wrap mesh has
\* depth-write disabled if and only if the resolved name contains "Fade";
\* every other receives-wrap mesh has depth-write enabled.
C24_DepthWriteOffOnlyForFade ==
  cPass = 1 =>
    \A i \in cBody : cGraph[i].material.depthWrite <=> ~FadeVariant(InName(i))

\* a fade mesh was wrapped with depth-write off
C24_Witness ==
  /\ cPass = 1
  /\ \E i \in cBody :
       /\ InName(i) = "ExteriorFade"
       /\ ~cGraph[i].material.depthWrite

\* C26 as stated: a pass leaves the material of every retain-original mesh
\* in place, with its colour map, base colour, transparency flag and opacity
\* unchanged, and touches nothing of the mesh and its material but the
\* flat-shading and the normals.
C26_OnlyShadingTouched ==
  [][\A i \in DOMAIN cGraph :
       i \notin cBody' =>
         cGraph'[i] =
           [cGraph[i] EXCEPT
              !.material.flatShading = @ /\ ~StandardKind(cGraph[i].material),
              !.normals = cGraph'[i].normals]]_vars

\* C26 amended: a pass leaves the material of every retain-original mesh in
\* place, with its colour map, base colour, transparency flag, opacity and
\* every other property unchanged; on a standard or physical material it
\* switches flat-shading off, marks the material for update and recomputes
\* the normals, on any other it does none of these; and it sets castShadow
\* and receiveShadow of the mesh, leaving its tag and render order alone.
C26_RetainedMaterialKept ==
  [][\A i \in DOMAIN cGraph :
       i \notin cBody' =>
         LET standard == StandardKind(cGraph[i].material)
         IN cGraph'[i] =
              [cGraph[i] EXCEPT
                 !.material.flatShading = @ /\ ~standard,
                 !.material.needsUpdate = @ \/ standard,
                 !.normals = @ \/ standard,
                 !.castShadow = TRUE,
                 !.receiveShadow = TRUE]]_vars

\* a retained half-invisible mesh with a colour map and a base colour of its
\* own kept its map, colour, transparency and opacity, lost its flat
\* shading, was marked for update and casts and receives shadows
C26_Witness ==
  /\ cPass = 1
  /\ \E i \in DOMAIN cGraph :
       /\ i \notin cBody
       /\ InMat(i).map = OwnMap /\ InMat(i).transparent /\ InMat(i).opacity = 49
       /\ InMat(i).color = "c0392b"
       /\ InMat(i).flatShading /\ ~InMat(i).needsUpdate
       /\ ~cInput[i].castShadow /\ ~cInput[i].receiveShadow
       /\ cGraph[i].material.made = "gltf"
       /\ cGraph[i].material.map = OwnMap
       /\ cGraph[i].material.color = "c0392b"
       /\ cGraph[i].material.transparent /\ cGraph[i].material.opacity = 49
       /\ ~cGraph[i].material.flatShading /\ cGraph[i].material.needsUpdate
       /\ cGraph[i].castShadow /\ cGraph[i].receiveShadow

\* the cache read of call c has ended in a failure
ReadFailed(c) == kCalls[c].readOutcome \in {"failed", "error"}

\* C29: getCachedPack never rejects: after any failure while reading the
\* cache (database open failure, transaction creation failure, or a failed
\* store get request) downloadPack has treated the read as a miss and gone
\* on to the network fetch; it has not rejected because of the read.
C29_ReadFailureIsMiss ==
  \A c \in DOMAIN kCalls :
    ReadFailed(c) => (kCalls[c].fetches = 1 /\ ~(kCalls[c].pc = "rejected" /\ kCalls[c].response = "none"))

\* the fetch of call c has ended with a response that is not ok
NotOk(c) == kCalls[c].response = "notOk"

\* C30: when the cache misses and the response is not ok, downloadPack
\* rejects, no cache write is started, and the step leaves the store as it
\* was, a stale entry of another version under the url included.
C30_NotOkRejectsWithoutWrite ==
  /\ [](\A c \in DOMAIN kCalls :
         NotOk(c) =>
           /\ kCalls[c].pc = "rejected"
           /\ kCalls[c].result = NoBlob
           /\ kCalls[c].write = "none" /\ kCalls[c].cachePack = "none")
  /\ [][\A c \in DOMAIN kCalls :
          (kCalls[c].pc = "fetching" /\ NotOk(c)') => kStore' = kStore]_vars

\* a call for version v2 missed on the stored entry of v1, got a response
\* that was not ok and rejected; the entry of v1 is still there
C30_Witness ==
  \E c \in DOMAIN kCalls :
    /\ NotOk(c)
    /\ kCalls[c].pc = "rejected"
    /\ kCalls[c].readOutcome = "ok"
    /\ kStore[kCalls[c].url].present
    /\ kStore[kCalls[c].url].version # kCalls[c].version
    /\ kStore[kCalls[c].url].data # c

(***************************************************************************)
(* Overlapping loads                                                       *)
(***************************************************************************)
\* the load of session s was still in flight when the session was torn
\* down: it has made a texture that no teardown disposed
CompletedAfterTeardown(s) ==
  /\ sessions[s].tornDown
  /\ \E t \in DOMAIN textures : textures[t].session = s /\ ~textures[t].disposed

\* C28: when the model changes, or the viewport is closed and reopened,
\* while the previous session's load is in flight, then once both loads have
\* finished, in either order, textureRef, bodyMeshesRef and meshRef refer to
\* objects of the session started last, and loading, error and
\* loadingProgress tell the outcome of the last load only.
C28_LatestSessionWins ==
  (/\ isOpen
   /\ Len(sessions) = 2
   /\ CompletedAfterTeardown(1)
   /\ Terminated(1) /\ Terminated(2))
    => /\ meshRef \in {0, 2}
       /\ bodyMeshesRef.owner \in {0, 2}
       /\ textureRef # 0 => textures[textureRef].session = 2
       /\ ~loading
       /\ IF Succeeded(2)
            THEN error = NoError /\ loadingProgress = 100
            ELSE error # NoError

(***************************************************************************)
(* The vertical-flip flag of the wrap texture                              *)
(***************************************************************************)
\* C25: in every state of an open viewport session, after any sequence of
\* load, design edits, toggleFlipY, reapplyCanvasTexture and custom texture
\* upload, the current wrap texture (textureRef) has its vertical-flip flag
\* false.
C25_FlipAlwaysFalse ==
  (isOpen /\ textureRef # 0) => ~textures[textureRef].flipY

(***************************************************************************)
(* The render loop                                                         *)
(***************************************************************************)
\* a frame callback is running: animate has requested the next frame and
\* has not yet returned from its controls update and render
FrameRunning == framePc # 0

\* the session whose main effect ran last and has not been cleaned up
LiveSession(s) == isOpen /\ s = Len(sessions) /\ ~sessions[s].tornDown

\* C27 as stated: the render loop is not re-entrant: a new frame is never
\* scheduled until the previous frame's work (controls update and render)
\* has completed, at most one frame callback is pending at any time, and
\* after the viewport is torn down no frame callback runs.
C27_FrameScheduledAfterWork ==
  /\ FrameRunning => pendingFrames = {}
  /\ Cardinality(pendingFrames) <= 1
  /\ ~isOpen => (pendingFrames = {} /\ ~FrameRunning)
  /\ FrameRunning => LiveSession(framePc)

\* C27 amended: the render loop is not re-entrant: each frame callback
\* requests the next frame as its first statement, before its controls
\* update and render, so while a frame's work is under way exactly one
\* callback, the one it requested, is pending; at most one frame callback
\* is pending at any time, it is the one animationFrameRef names and it
\* belongs to the live session; after the viewport is torn down no frame
\* callback is pending or running.
C27_OneFramePending ==
  /\ FrameRunning =>
       pendingFrames = {[id |-> animationFrameRef, session |-> framePc]}
  /\ Cardinality(pendingFrames) <= 1
  /\ \A f \in pendingFrames : f.id = animationFrameRef /\ LiveSession(f.session)
  /\ ~isOpen => (pendingFrames = {} /\ ~FrameRunning)
  /\ FrameRunning => LiveSession(framePc)

\* the loop of the second session is in its third frame, the first session
\* having been torn down with a frame pending
C27_Witness ==
  /\ Len(sessions) = 2
  /\ sessions[1].tornDown
  /\ framePc = 2
  /\ frameCount = 4
  /\ Cardinality(pendingFrames) = 1

====
